---- MODULE Spec2Model ----
(***************************************************************************)
(* Page-object layer of the Cempal Portal end-to-end suite.                *)
(*                                                                         *)
(* A page-object method is an async function: a sequence of awaited calls  *)
(* of the browser-automation library.  The model runs one method at a      *)
(* time.  Every library call is issued (appended to log as pending) and    *)
(* later settles: it resolves with a value or rejects.  What the method    *)
(* does next is a function of the calls settled so far, exactly as the     *)
(* code after an await is.  The live page is opaque: the outcome of every  *)
(* library call is chosen nondeterministically.                            *)
(***************************************************************************)
EXTENDS Integers, Sequences, FiniteSets, TLC

VARIABLES
    testData,   \* the configuration object (config/testData.js)
    objs,       \* the page-object instances, one slot per class
    frame,      \* the method invocation in progress (or the last one)
    log,        \* the steps of that invocation, in issue order
    appearsAfter, \* ms after which the element of the last settled wait showed up
    result,     \* how the last invocation ended
    test,       \* the test case the runner is running (a spec file's run)
    browser,    \* the browser contexts a test has opened, each with its pages
    contexts,   \* the array contexts of the Concurrent User Simulation test
    pages,      \* its array pages
    tasks       \* its login tasks (the promises of loginPromises)

vars ==
    <<testData, objs, frame, log, appearsAfter, result, test, browser, contexts, pages,
      tasks>>

\* what the runner and the tests hold, apart from the page objects
runVars == <<test, browser, contexts, pages, tasks>>

(***************************************************************************)
(* Bounds                                                                  *)
(***************************************************************************)
MaxPages == 1

\* rows a table of the page may hold
MaxRows == 2

\* cells a table row of the page may hold
MaxCells == 4

Pages == 1..MaxPages

\* How long (ms) the page takes to bring a waited-for element into the
\* waited-for state; chosen by the page at every wait.
Delays == {2000, 7000, 40000}

(***************************************************************************)
(* JavaScript values                                                       *)
(***************************************************************************)
JSBool(b) == [t |-> "boolean", b |-> b]
JSNum(n) == [t |-> "number", n |-> n]
JSStr(s) == [t |-> "string", s |-> s]
JSNull == [t |-> "null"]
JSUndefined == [t |-> "undefined"]
JSObj(o) == [t |-> "object", o |-> o]

\* an omitted string argument
undefined == "<undefined>"

\* x || d on strings: '' and undefined are falsy
Falsy(x) == x \in {undefined, ""}

\* a parameter's default value (name = default)
Default(x, d) == IF x = undefined THEN d ELSE x

(***************************************************************************)
(* config/testData.js                                                      *)
(***************************************************************************)
testDataModule ==
    [ baseUrl |-> "https://dev.cempal.craftsmenltd.com",
      credentials |->
        [ email |-> "mehedimohammad213@gmail.com",
          password |-> "TempPass#60589",
          googleEmail |-> "mehedimohammad7728@gmail.com" ],
      tenant |->
        [ name |-> "ee",
          domain |-> "dev.cem0pal.craftsmenltd.com",
          contactEmail |-> "s@g.com",
          address |-> "eee12",
          updatedAddress |-> "eee12" ],
      userAssignment |->
        [ tenantName |-> "@#$%",
          userGroup |-> "Tenant Admin",
          teamName |-> "Cutting Shoaib Vai" ],
      browser |->
        [ viewport |-> [width |-> 1920, height |-> 1080],
          slowMo |-> 1000,
          headless |-> FALSE ],
      timeouts |->
        [ short |-> 5000, medium |-> 10000, long |-> 30000, veryLong |-> 60000 ],
      environment |->
        [ os |-> "Linux 6.14.0",
          browser |-> "Chrome 141",
          resolution |-> "1920x1080",
          testDate |-> "28 Oct 2025 / 22:35:25 GMT+6" ],
      selectors |->
        [ emailInput |-> "input[id='amplify-id-:r2:']",
          passwordInput |-> "input[id='amplify-id-:r5:']",
          signInButton |-> "button[type='submit']",
          googleSignInButton |-> "//span[@class='amplify-text']",
          resetPasswordButton |-> "//span[normalize-space()='Reset Password']",
          accountCircle |-> "//span[@class='material-symbols-outlined medium-icon-style']",
          logoutButton |-> "//span[normalize-space()='Logout from Cempal']",
          tenantLogo |-> "//img[@alt='tenantLogo']",
          dashboardButton |-> "//span[normalize-space()='Dashboard']",
          privacyPolicyLink |-> "//a[normalize-space()='Privacy Policy']",
          tenantListLink |-> "//a[normalize-space()='Tenant List']",
          createTenantButton |-> "//span[normalize-space()='Create new Tenant']",
          tenantNameInput |-> "#tenantName",
          domainNameInput |-> "#domainName",
          contactEmailInput |-> "#contact",
          addressTextarea |-> "#address",
          createTenantSubmitButton |-> "//span[normalize-space()='Create Tenant']",
          updateTenantButton |-> "//span[normalize-space()='Update']",
          superAdminsLink |-> "//a[normalize-space()='Super Admins']",
          assignButton |-> "//button[@type='button']//span[contains(text(),'Assign')]",
          tenantSelect |-> "#tenantId",
          groupSelect |-> "#userGroup",
          teamSelect |-> "#teamId",
          assignSubmitButton |-> "//button[@type='submit']//span[contains(text(),'Assign')]" ] ]

\* A reference to one of the configuration's sub-objects: instances hold
\* the object itself, never a copy (this.selectors = testData.selectors).
Ref(key) == [t |-> "ref", ref |-> key]

\* the library's page handle
PageHandle(p) == [t |-> "page", id |-> p]

Deref(r) == testData[r.ref]

(***************************************************************************)
(* Instructions: what a method does next                                   *)
(***************************************************************************)
\* a library call, with the arguments the code passes
Lib(op, sel) ==
    [op |-> op, sel |-> sel, sub |-> "", nth |-> 0, state |-> "", timeout |-> 0,
     text |-> ""]

Call(c) == [k |-> "call", call |-> c, await |-> TRUE]

\* target.field = value
Store(target, field, value) ==
    [k |-> "store", target |-> target, field |-> field, value |-> value]

\* a computation that calls nothing outside the object, and its value
Local(fn, val) == [k |-> "local", fn |-> fn, val |-> val]

Return(v) == [k |-> "return", val |-> v]

Throw == [k |-> "throw"]

\* the steps of h that rejected while the method awaited them
Rejected(h) == {i \in 1..Len(h) : h[i].st = "throw" /\ h[i].await}

\* A straight-line async body: the instructions of prog one after the
\* other; a rejected await ends the body with the exception; falling off
\* the end returns ret.
Run(prog, h, ret) ==
    IF Rejected(h) # {} THEN Throw
    ELSE IF Len(h) < Len(prog) THEN prog[Len(h) + 1]
    ELSE Return(ret)

\* try { prog; return retOk } catch (error) { return retCatch }
TryRun(prog, h, retOk, retCatch) ==
    IF Rejected(h) # {} THEN Return(retCatch)
    ELSE IF Len(h) < Len(prog) THEN prog[Len(h) + 1]
    ELSE Return(retOk)

\* the value step i of h resolved with (undefined while it has not)
ValueOf(h, i) == IF i <= Len(h) /\ h[i].st = "ok" THEN h[i].val ELSE JSUndefined

(***************************************************************************)
(* pages/BasePage.js                                                       *)
(***************************************************************************)
waitForElement_timeout == 10000

waitForClickable_timeout == 10000

isVisible_timeout == 5000

\* this.page.waitForSelector(selector, { state, timeout })
waitForSelector(selector, state, timeout) ==
    Call([Lib("waitForSelector", selector) EXCEPT !.state = state, !.timeout = timeout])

BasePage_constructor(this, page) == <<Store(this, "page", page)>>

goto(url) == <<Call([Lib("goto", "") EXCEPT !.text = url])>>

waitForElement(selector, timeout) == <<waitForSelector(selector, "", timeout)>>

waitForClickable(selector, timeout) ==
    << waitForSelector(selector, "visible", timeout),
       waitForSelector(selector, "attached", timeout) >>

\* click that waits a second time before it clicks
click_retry(selector) ==
    waitForClickable(selector, waitForClickable_timeout)
        \o waitForClickable(selector, waitForClickable_timeout)
        \o <<Call(Lib("click", selector))>>

click(selector) ==
    waitForClickable(selector, waitForClickable_timeout)
        \o <<Call(Lib("click", selector))>>

fill(selector, text) ==
    waitForElement(selector, waitForElement_timeout)
        \o <<Call([Lib("fill", selector) EXCEPT !.text = text])>>

\* isVisible without its try/catch
isVisible_uncaught(selector, h) ==
    Run(<< waitForSelector(selector, "", isVisible_timeout),
           Call(Lib("isVisible", selector)) >>,
        h, ValueOf(h, 2))

isVisible(selector, h) ==
    TryRun(<< waitForSelector(selector, "", isVisible_timeout),
              Call(Lib("isVisible", selector)) >>,
           h, ValueOf(h, 2), JSBool(FALSE))

waitForNavigation ==
    <<Call([Lib("waitForLoadState", "") EXCEPT !.state = "networkidle"])>>

wait(ms) == <<Call([Lib("waitForTimeout", "") EXCEPT !.timeout = ms])>>

(***************************************************************************)
(* pages/LoginPage.js                                                      *)
(***************************************************************************)
\* a LoginPage constructor that patches the shared selector map
LoginPage_constructor_patching(this, page) ==
    BasePage_constructor(this, page)
        \o << Store(this, "selectors", Ref("selectors")),
              Store("selectors", "emailInput", "#email") >>

LoginPage_constructor(this, page) ==
    BasePage_constructor(this, page)
        \o <<Store(this, "selectors", Ref("selectors"))>>

\* this.selectors.<name>, read through the instance's reference
Sel(this, name) == Deref(objs[this]["selectors"])[name]

enterEmail(this, email) ==
    fill(Sel(this, "emailInput"), Default(email, testData.credentials.email))

enterPassword(this, password) ==
    fill(Sel(this, "passwordInput"), Default(password, testData.credentials.password))

clickSignIn(this) == click(Sel(this, "signInButton"))

\* login that clicks Sign In before it has typed the password
login_clickFirst(this, email, password) ==
    enterEmail(this, Default(email, testData.credentials.email))
        \o clickSignIn(this)
        \o enterPassword(this, Default(password, testData.credentials.password))
        \o waitForNavigation

login(this, email, password) ==
    enterEmail(this, Default(email, testData.credentials.email))
        \o enterPassword(this, Default(password, testData.credentials.password))
        \o clickSignIn(this)
        \o waitForNavigation

isLoginSuccessful(h) ==
    TryRun(<<waitForSelector("//img[@alt=\"tenantLogo\"]", "", 10000)>>,
           h, JSBool(TRUE), JSBool(FALSE))

errorSelectors ==
    << "text=Invalid credentials", "text=User not found", "text=Incorrect password",
       "text=Authentication failed", "[data-testid=\"error-message\"]",
       ".error-message", ".alert-danger" >>

\* for (const selector of selectors) { if (await this.isVisible(selector)) ... }
\* over the calls h the loop has made: the next library call, or the
\* selector the loop has found visible (and the calls made after that), or
\* that the loop has run out
RECURSIVE FirstVisible(_, _)
FirstVisible(selectors, h) ==
    IF selectors = <<>> THEN [k |-> "none"]
    ELSE LET n == IF Len(h) >= 1 /\ h[1].st = "throw" THEN 1
                  ELSE IF Len(h) >= 2 THEN 2 ELSE Len(h)
             visible == isVisible(Head(selectors), SubSeq(h, 1, n))
             rest == SubSeq(h, n + 1, Len(h))
         IN  IF visible.k = "call" THEN visible
             ELSE IF visible.val = JSBool(TRUE)
                  THEN [k |-> "found", selector |-> Head(selectors), rest |-> rest]
                  ELSE FirstVisible(Tail(selectors), rest)

\* isLoginFailed that does not stop at the first visible indicator
isLoginFailed_lastWins(h) ==
    LET RECURSIVE Last(_, _)
        Last(selectors, g) ==
            IF selectors = <<>> THEN Return(JSBool(FALSE))
            ELSE LET n == IF Len(g) >= 1 /\ g[1].st = "throw" THEN 1
                          ELSE IF Len(g) >= 2 THEN 2 ELSE Len(g)
                     visible == isVisible(Head(selectors), SubSeq(g, 1, n))
                     later == Last(Tail(selectors), SubSeq(g, n + 1, Len(g)))
                 IN  IF visible.k = "call" THEN visible
                     ELSE IF later.k = "call" THEN later
                     ELSE Return(JSBool(visible.val = JSBool(TRUE) \/ later.val = JSBool(TRUE)))
    IN  Last(errorSelectors, h)

\* The try block awaits isVisible only, which catches what it awaits, so
\* the catch of isLoginFailed has nothing to catch.
isLoginFailed(h) ==
    LET found == FirstVisible(errorSelectors, h)
    IN  IF found.k = "call" THEN found ELSE Return(JSBool(found.k = "found"))

\* return await this.getText(selector), getText being waitForElement and
\* page.textContent
getErrorMessage(h) ==
    LET found == FirstVisible(errorSelectors, h)
    IN  IF found.k = "call" THEN found
        ELSE IF found.k = "none" THEN Return(JSStr("No error message found"))
        ELSE Run(waitForElement(found.selector, waitForElement_timeout)
                     \o <<Call(Lib("textContent", found.selector))>>,
                 found.rest, ValueOf(found.rest, 2))

\* loginWithGoogle that clicks the account entry whatever isVisible said
loginWithGoogle_always(this, googleEmail, h) ==
    LET account == "//div[normalize-space()='"
                       \o Default(googleEmail, testData.credentials.googleEmail) \o "']"
        signIn == click(Sel(this, "googleSignInButton")) \o waitForNavigation
        n == Len(signIn)
        found == FirstVisible(<<account>>, SubSeq(h, n + 1, Len(h)))
        m == IF Len(h) > n /\ h[n + 1].st = "throw" THEN n + 1 ELSE n + 2
    IN  IF Len(h) < n \/ Rejected(SubSeq(h, 1, n)) # {} THEN Run(signIn, h, JSUndefined)
        ELSE IF found.k = "call" THEN found
        ELSE Run(click(account) \o waitForNavigation, SubSeq(h, m + 1, Len(h)), JSUndefined)

\* await this.clickGoogleSignIn(); await this.waitForNavigation();
\* if (await this.isVisible(account)) { click(account); waitForNavigation() }
loginWithGoogle(this, googleEmail, h) ==
    LET account == "//div[normalize-space()='"
                       \o Default(googleEmail, testData.credentials.googleEmail) \o "']"
        signIn == click(Sel(this, "googleSignInButton")) \o waitForNavigation
        n == Len(signIn)
        found == FirstVisible(<<account>>, SubSeq(h, n + 1, Len(h)))
    IN  IF Len(h) < n \/ Rejected(SubSeq(h, 1, n)) # {} THEN Run(signIn, h, JSUndefined)
        ELSE IF found.k = "call" THEN found
        ELSE IF found.k = "none" THEN Return(JSUndefined)
        ELSE Run(click(account) \o waitForNavigation, found.rest, JSUndefined)

(***************************************************************************)
(* pages/DashboardPage.js                                                  *)
(***************************************************************************)
DashboardPage_constructor(this, page) ==
    BasePage_constructor(this, page)
        \o <<Store(this, "selectors", Ref("selectors"))>>

\* isLoggedIn waiting as long as isPageLoaded does
isLoggedIn_longWait(h) ==
    TryRun(waitForElement("//img[@alt=\"tenantLogo\"]", 10000),
           h, JSBool(TRUE), JSBool(FALSE))

isLoggedIn(h) ==
    TryRun(waitForElement("//img[@alt=\"tenantLogo\"]", 5000),
           h, JSBool(TRUE), JSBool(FALSE))

isPageLoaded(h) ==
    TryRun(waitForElement("//img[@alt=\"tenantLogo\"]", 10000),
           h, JSBool(TRUE), JSBool(FALSE))


(***************************************************************************)
(* pages/TenantManagementPage.js                                           *)
(***************************************************************************)
TenantManagementPage_constructor(this, page) ==
    BasePage_constructor(this, page)
        \o << Store(this, "selectors", Ref("selectors")),
              Store(this, "tenantData", Ref("tenant")) >>

\* this.tenantData, read through the instance's reference
TenantData(this) == Deref(objs[this]["tenantData"])

\* an omitted object argument
omitted == [omitted |-> TRUE]

DataDefault(x, d) == IF DOMAIN x = {"omitted"} THEN d ELSE x

\* obj.field of an object literal that may lack the field
Field(obj, f) == IF f \in DOMAIN obj THEN obj[f] ELSE undefined

\* The strings the form checks are fed, and the characters of each.
FormStrings ==
    { "",
      " ",
      "ee",
      "eee",
      "eee12",
      "s@g.com",
      "s@g",
      "a b@g.com",
      "dev.cem0pal.craftsmenltd.com",
      "dev.cempal.craftsmenltd.com",
      "cempal.com",
      "ee.com",
      "-ee.com",
      "Updated Address",
      "e-e.com",
      "ee-.com",
      "eee.c",
      "eee.c0m",
      "eee.com",
      "eee.",
      "a@b@c.d",
      "s@.com",
      "s@g.",
      "@g.com",
      "s@g..com",
      "s@g.c m",
      "aaaaaaaaaaaaaaaaaaaaaaaaaaaaaaaaaaaaaaaaaaaaaaaaaaaaaaaaaaaaaaa.com",
      "aaaaaaaaaaaaaaaaaaaaaaaaaaaaaaaaaaaaaaaaaaaaaaaaaaaaaaaaaaaaaaaa.com" }

Chars(s) ==
    CASE s = "" -> <<>>
      [] s = " " -> <<" ">>
      [] s = "ee" -> <<"e", "e">>
      [] s = "eee" -> <<"e", "e", "e">>
      [] s = "eee12" -> <<"e", "e", "e", "1", "2">>
      [] s = "s@g.com" -> <<"s", "@", "g", ".", "c", "o", "m">>
      [] s = "s@g" -> <<"s", "@", "g">>
      [] s = "a b@g.com" -> <<"a", " ", "b", "@", "g", ".", "c", "o", "m">>
      [] s = "dev.cem0pal.craftsmenltd.com" -> <<"d", "e", "v", ".", "c", "e", "m", "0", "p", "a", "l", ".", "c", "r", "a", "f", "t", "s", "m", "e", "n", "l", "t", "d", ".", "c", "o", "m">>
      [] s = "dev.cempal.craftsmenltd.com" -> <<"d", "e", "v", ".", "c", "e", "m", "p", "a", "l", ".", "c", "r", "a", "f", "t", "s", "m", "e", "n", "l", "t", "d", ".", "c", "o", "m">>
      [] s = "cempal.com" -> <<"c", "e", "m", "p", "a", "l", ".", "c", "o", "m">>
      [] s = "ee.com" -> <<"e", "e", ".", "c", "o", "m">>
      [] s = "-ee.com" -> <<"-", "e", "e", ".", "c", "o", "m">>
      [] s = "Updated Address" -> <<"U", "p", "d", "a", "t", "e", "d", " ", "A", "d", "d", "r", "e", "s", "s">>
      [] s = "e-e.com" -> <<"e", "-", "e", ".", "c", "o", "m">>
      [] s = "ee-.com" -> <<"e", "e", "-", ".", "c", "o", "m">>
      [] s = "eee.c" -> <<"e", "e", "e", ".", "c">>
      [] s = "eee.c0m" -> <<"e", "e", "e", ".", "c", "0", "m">>
      [] s = "eee.com" -> <<"e", "e", "e", ".", "c", "o", "m">>
      [] s = "eee." -> <<"e", "e", "e", ".">>
      [] s = "a@b@c.d" -> <<"a", "@", "b", "@", "c", ".", "d">>
      [] s = "s@.com" -> <<"s", "@", ".", "c", "o", "m">>
      [] s = "s@g." -> <<"s", "@", "g", ".">>
      [] s = "@g.com" -> <<"@", "g", ".", "c", "o", "m">>
      [] s = "s@g..com" -> <<"s", "@", "g", ".", ".", "c", "o", "m">>
      [] s = "s@g.c m" -> <<"s", "@", "g", ".", "c", " ", "m">>
      [] s = "aaaaaaaaaaaaaaaaaaaaaaaaaaaaaaaaaaaaaaaaaaaaaaaaaaaaaaaaaaaaaaa.com" -> [i \in 1..63 |-> "a"] \o <<".", "c", "o", "m">>
      [] s = "aaaaaaaaaaaaaaaaaaaaaaaaaaaaaaaaaaaaaaaaaaaaaaaaaaaaaaaaaaaaaaaa.com" -> [i \in 1..64 |-> "a"] \o <<".", "c", "o", "m">>

Letters ==
    {"a", "b", "c", "d", "e", "f", "g", "h", "i", "j", "k", "l", "m", "n", "o", "p", "q", "r", "s", "t", "u", "v", "w", "x", "y", "z",
     "A", "B", "C", "D", "E", "F", "G", "H", "I", "J", "K", "L", "M", "N", "O", "P", "Q", "R", "S", "T", "U", "V", "W", "X", "Y", "Z"}

Digits == {"0", "1", "2", "3", "4", "5", "6", "7", "8", "9"}

\* \s
Whitespace == {" ", "\t", "\n"}

All(c, S) == \A i \in 1..Len(c) : c[i] \in S

None(c, S) == \A i \in 1..Len(c) : c[i] \notin S

RECURSIVE trimStart(_)
trimStart(c) ==
    IF c # <<>> /\ Head(c) \in Whitespace THEN trimStart(Tail(c)) ELSE c

RECURSIVE trimEnd(_)
trimEnd(c) ==
    IF c # <<>> /\ c[Len(c)] \in Whitespace
    THEN trimEnd(SubSeq(c, 1, Len(c) - 1)) ELSE c

\* String.prototype.trim
trim(c) == trimEnd(trimStart(c))

\* a domain check that lets dots into the label (sub-domains)
domainRegex_dotted(c) ==
    \E i \in 1..Len(c) :
        LET label == SubSeq(c, 1, i - 1)
            tld == SubSeq(c, i + 1, Len(c))
            inner == SubSeq(label, 2, Len(label) - 1)
        IN  /\ c[i] = "."
            /\ Len(label) >= 2
            /\ label[1] \in Letters \cup Digits
            /\ label[Len(label)] \in Letters \cup Digits
            /\ Len(inner) >= 1
            /\ All(inner, Letters \cup Digits \cup {"-", "."})
            /\ Len(tld) >= 2
            /\ All(tld, Letters)

\* /^[a-zA-Z0-9][a-zA-Z0-9-]{1,61}[a-zA-Z0-9]\.[a-zA-Z]{2,}$/.test(c)
domainRegex(c) ==
    \E i \in 1..Len(c) :
        LET label == SubSeq(c, 1, i - 1)
            tld == SubSeq(c, i + 1, Len(c))
            inner == SubSeq(label, 2, Len(label) - 1)
        IN  /\ c[i] = "."
            /\ Len(label) >= 2
            /\ label[1] \in Letters \cup Digits
            /\ label[Len(label)] \in Letters \cup Digits
            /\ Len(inner) >= 1 /\ Len(inner) <= 61
            /\ All(inner, Letters \cup Digits \cup {"-"})
            /\ Len(tld) >= 2
            /\ All(tld, Letters)

\* /^[^\s@]+@[^\s@]+\.[^\s@]+$/.test(c)
emailRegex(c) ==
    \E i \in 1..Len(c) : \E j \in (i + 1)..Len(c) :
        LET local == SubSeq(c, 1, i - 1)
            host == SubSeq(c, i + 1, j - 1)
            rest == SubSeq(c, j + 1, Len(c))
        IN  /\ c[i] = "@" /\ c[j] = "."
            /\ Len(local) >= 1 /\ None(local, Whitespace \cup {"@"})
            /\ Len(host) >= 1 /\ None(host, Whitespace \cup {"@"})
            /\ Len(rest) >= 1 /\ None(rest, Whitespace \cup {"@"})

\* the validation object validateTenantForm builds and returns
validation(tenantData) ==
    LET name == Field(tenantData, "name")
        domain == Field(tenantData, "domain")
        contactEmail == Field(tenantData, "contactEmail")
        address == Field(tenantData, "address")
    IN  [ tenantName |-> ~(Falsy(name) \/ trim(Chars(name)) = <<>>),
          domainName |-> ~(Falsy(domain) \/ ~domainRegex(Chars(domain))),
          contactEmail |-> ~(Falsy(contactEmail) \/ ~emailRegex(Chars(contactEmail))),
          address |-> ~(Falsy(address) \/ trim(Chars(address)) = <<>>) ]

validateTenantForm(tenantData) ==
    <<Local("validateTenantForm", JSObj(validation(tenantData)))>>


\* clickCreateNewTenant remembering on the instance that the modal is open
clickCreateNewTenant_remembering(this) ==
    click(Sel(this, "createTenantButton")) \o <<Store(this, "modalOpen", JSBool(TRUE))>>

clickCreateNewTenant(this) == click(Sel(this, "createTenantButton"))

fillTenantName(this, name) ==
    fill(Sel(this, "tenantNameInput"), Default(name, TenantData(this).name))

fillDomainName(this, domain) ==
    fill(Sel(this, "domainNameInput"), Default(domain, TenantData(this).domain))

fillContactEmail(this, email) ==
    fill(Sel(this, "contactEmailInput"), Default(email, TenantData(this).contactEmail))

fillAddress(this, address) ==
    fill(Sel(this, "addressTextarea"), Default(address, TenantData(this).address))

clickCreateTenantSubmit(this) == click(Sel(this, "createTenantSubmitButton"))

clickUpdateTenant(this) == click(Sel(this, "updateTenantButton"))

\* createTenant that submits before it has filled the address
createTenant_earlySubmit(this, tenantData) ==
    LET data == DataDefault(tenantData, TenantData(this))
    IN  clickCreateNewTenant(this)
            \o waitForElement("//div[@class=\"ant-modal-content\"]", waitForElement_timeout)
            \o fillTenantName(this, Field(data, "name"))
            \o fillDomainName(this, Field(data, "domain"))
            \o fillContactEmail(this, Field(data, "contactEmail"))
            \o clickCreateTenantSubmit(this)
            \o fillAddress(this, Field(data, "address"))
            \o waitForNavigation

\* createTenant that runs the local format check before it submits
createTenant_validating(this, tenantData) ==
    LET data == DataDefault(tenantData, TenantData(this))
    IN  clickCreateNewTenant(this)
            \o waitForElement("//div[@class=\"ant-modal-content\"]", waitForElement_timeout)
            \o fillTenantName(this, Field(data, "name"))
            \o fillDomainName(this, Field(data, "domain"))
            \o fillContactEmail(this, Field(data, "contactEmail"))
            \o fillAddress(this, Field(data, "address"))
            \o validateTenantForm(data)
            \o clickCreateTenantSubmit(this)
            \o waitForNavigation

createTenant(this, tenantData) ==
    LET data == DataDefault(tenantData, TenantData(this))
    IN  clickCreateNewTenant(this)
            \o waitForElement("//div[@class=\"ant-modal-content\"]", waitForElement_timeout)
            \o fillTenantName(this, Field(data, "name"))
            \o fillDomainName(this, Field(data, "domain"))
            \o fillContactEmail(this, Field(data, "contactEmail"))
            \o fillAddress(this, Field(data, "address"))
            \o clickCreateTenantSubmit(this)
            \o waitForNavigation

findTenantInList(tenantName, h) ==
    TryRun(waitForElement("//td[contains(text(),'" \o tenantName \o "')]", 5000),
           h, JSBool(TRUE), JSBool(FALSE))

actionSelectors ==
    [ read_more |-> "//span[@aria-label=\"read_more\"]",
      edit_note |-> "//span[@aria-label=\"edit_note\"]",
      groups |-> "//span[@aria-label=\"groups\"]" ]

\* the row of the table that holds the given text
Row(text) == "//tr[td[contains(text(),'" \o text \o "')]]"

clickTenantAction(tenantName, action) ==
    <<Call([Lib("locator.click", Row(tenantName)) EXCEPT !.sub = actionSelectors[action]])>>

\* a guard that asks only whether the field is there
IfGiven_defined(value, body) == IF value = undefined THEN <<>> ELSE body

\* if (value) { await fillX(value); }
IfGiven(value, body) == IF Falsy(value) THEN <<>> ELSE body

editTenant(this, tenantName, updatedData) ==
    clickTenantAction(tenantName, "edit_note")
        \o waitForElement("//div[@class=\"ant-modal-wrap\"]", waitForElement_timeout)
        \o IfGiven(Field(updatedData, "name"),
                   fillTenantName(this, Field(updatedData, "name")))
        \o IfGiven(Field(updatedData, "domain"),
                   fillDomainName(this, Field(updatedData, "domain")))
        \o IfGiven(Field(updatedData, "contactEmail"),
                   fillContactEmail(this, Field(updatedData, "contactEmail")))
        \o IfGiven(Field(updatedData, "address"),
                   fillAddress(this, Field(updatedData, "address")))
        \o clickUpdateTenant(this)
        \o waitForNavigation

\* four this.page.fill(selector, '') in a row, none of them waited for
clearTenantForm(this) ==
    [i \in 1..4 |->
        Call(Lib("fill", Sel(this, <<"tenantNameInput", "domainNameInput",
                                     "contactEmailInput", "addressTextarea">>[i])))]

getTenantListCount(h) ==
    TryRun(<<Call(Lib("locator.count", "//table//tbody//tr"))>>,
           h, ValueOf(h, 1), JSNum(0))

EmptyDetails == [name |-> "", domain |-> "", contactEmail |-> "", address |-> ""]

\* await cells[i]?.textContent() || ''
OrEmpty(v) ==
    IF v.t = "string" /\ v.s # "" THEN v ELSE JSStr("")

\* cells = await tenantRow.locator('td').all(), then the text of cells[0..3]
\* that exist, in the order the object literal names them
RowCells(row, h) ==
    LET n == IF ValueOf(h, 1).t = "number" THEN ValueOf(h, 1).n ELSE 0
        k == IF n < 4 THEN n ELSE 4
    IN  <<Call([Lib("locator.all", row) EXCEPT !.sub = "td"])>>
            \o [i \in 1..k |->
                  Call([Lib("locator.textContent", row) EXCEPT !.sub = "td", !.nth = i - 1])]

\* getTenantDetails answering a failure with an empty object
getTenantDetails_emptyObject(tenantName, h) ==
    TryRun(RowCells(Row(tenantName), h), h, JSObj(EmptyDetails), JSObj(EmptyDetails))

getTenantDetails(tenantName, h) ==
    TryRun(RowCells(Row(tenantName), h), h,
           JSObj([ name |-> OrEmpty(ValueOf(h, 2)),
                   domain |-> OrEmpty(ValueOf(h, 3)),
                   contactEmail |-> OrEmpty(ValueOf(h, 4)),
                   address |-> OrEmpty(ValueOf(h, 5)) ]),
           JSNull)


(***************************************************************************)
(* pages/UserAssignmentPage.js                                             *)
(***************************************************************************)
UserAssignmentPage_constructor(this, page) ==
    BasePage_constructor(this, page)
        \o << Store(this, "selectors", Ref("selectors")),
              Store(this, "userAssignmentData", Ref("userAssignment")) >>

\* this.userAssignmentData, read through the instance's reference
UserAssignmentData(this) == Deref(objs[this]["userAssignmentData"])

clickAssignButton(userEmail) ==
    <<Call([Lib("locator.click", Row(userEmail)) EXCEPT
              !.sub = "//button[@type='button']//span[contains(text(),'Assign')]"])>>

clickTenantDropdown(this) == click(Sel(this, "tenantSelect"))

selectTenant(this, tenantName) ==
    clickTenantDropdown(this)
        \o wait(1000)
        \o click("//div[@class='ant-select-item-option-content'][normalize-space()='"
                     \o Default(tenantName, UserAssignmentData(this).tenantName) \o "']")

clickGroupDropdown(this) == click(Sel(this, "groupSelect"))

selectUserGroup(this, groupName) ==
    clickGroupDropdown(this)
        \o wait(1000)
        \o click("//div[contains(text(),'"
                     \o Default(groupName, UserAssignmentData(this).userGroup) \o "')]")

clickTeamDropdown(this) == click(Sel(this, "teamSelect"))

selectTeam(this, teamName) ==
    clickTeamDropdown(this)
        \o wait(1000)
        \o click("//div[@title='"
                     \o Default(teamName, UserAssignmentData(this).teamName) \o "']")

clickAssignSubmit(this) == click(Sel(this, "assignSubmitButton"))

\* assignUser that picks the user group before the tenant
assignUser_groupFirst(this, userEmail, assignmentData) ==
    LET data == DataDefault(assignmentData, UserAssignmentData(this))
    IN  clickAssignButton(userEmail)
            \o waitForElement("//div[@class=\"ant-modal-content\"]", waitForElement_timeout)
            \o selectUserGroup(this, Field(data, "userGroup"))
            \o selectTenant(this, Field(data, "tenantName"))
            \o selectTeam(this, Field(data, "teamName"))
            \o clickAssignSubmit(this)
            \o waitForNavigation

assignUser(this, userEmail, assignmentData) ==
    LET data == DataDefault(assignmentData, UserAssignmentData(this))
    IN  clickAssignButton(userEmail)
            \o waitForElement("//div[@class=\"ant-modal-content\"]", waitForElement_timeout)
            \o selectTenant(this, Field(data, "tenantName"))
            \o selectUserGroup(this, Field(data, "userGroup"))
            \o selectTeam(this, Field(data, "teamName"))
            \o clickAssignSubmit(this)
            \o waitForNavigation

\* texts a table cell of the page may hold
CellTexts == {"Assigned", "Pending"}

CellChars(s) ==
    CASE s = "Assigned" -> <<"A", "s", "s", "i", "g", "n", "e", "d">>
      [] s = "Pending" -> <<"P", "e", "n", "d", "i", "n", "g">>
      [] s = "dark" -> <<"d", "a", "r", "k">>
      [] s = "light" -> <<"l", "i", "g", "h", "t">>
      [] s = "app dark-theme" ->
            <<"a", "p", "p", " ", "d", "a", "r", "k", "-", "t", "h", "e", "m", "e">>
      [] OTHER -> Chars(s)

\* String.prototype.toLowerCase, on the capitals the cell texts hold
toLowerCase(c) ==
    [i \in 1..Len(c) |->
        CASE c[i] = "A" -> "a" [] c[i] = "P" -> "p"
          [] OTHER -> c[i]]

\* String.prototype.includes
includes(c, pat) ==
    \E i \in 0..(Len(c) - Len(pat)) : SubSeq(c, i + 1, i + Len(pat)) = pat

\* statusText.toLowerCase().includes('assigned')
includesAssigned(text) ==
    includes(toLowerCase(CellChars(text)), <<"a", "s", "s", "i", "g", "n", "e", "d">>)

\* userRow.locator('td').nth(2).textContent()
statusCellText(userEmail) ==
    Call([Lib("locator.textContent", Row(userEmail)) EXCEPT !.sub = "td", !.nth = 2])

\* statusText && statusText.toLowerCase().includes('assigned')
isUserAssigned(userEmail, h) ==
    LET statusText == ValueOf(h, 1)
    IN  TryRun(<<statusCellText(userEmail)>>, h,
               IF statusText.t = "string" /\ statusText.s # ""
               THEN JSBool(includesAssigned(statusText.s))
               ELSE statusText,
               JSBool(FALSE))

getUserAssignmentStatus(userEmail, h) ==
    TryRun(<<statusCellText(userEmail)>>, h, ValueOf(h, 1), JSStr("Unknown"))

getSuperAdminsCount(h) ==
    TryRun(<<Call(Lib("locator.count", "//table//tbody//tr"))>>,
           h, ValueOf(h, 1), JSNum(0))

isAssignButtonVisible(userEmail, h) ==
    TryRun(<<Call([Lib("locator.isVisible", Row(userEmail)) EXCEPT
                     !.sub = "//button[@type='button']//span[contains(text(),'Assign')]"])>>,
           h, ValueOf(h, 1), JSBool(FALSE))

getUserDetails(userEmail, h) ==
    TryRun(RowCells(Row(userEmail), h), h,
           JSObj([ email |-> OrEmpty(ValueOf(h, 2)),
                   name |-> OrEmpty(ValueOf(h, 3)),
                   status |-> OrEmpty(ValueOf(h, 4)),
                   actions |-> OrEmpty(ValueOf(h, 5)) ]),
           JSNull)


(***************************************************************************)
(* pages/DashboardPage.js: the theme                                       *)
(***************************************************************************)
\* values the class attribute of the page's body may hold
ClassNames == {"", "dark", "light", "app dark-theme"}

toggleTheme == click("//span[@class='ant-switch-inner']") \o wait(1000)

\* getCurrentTheme calling includes on whatever the attribute read gave
getCurrentTheme_unguarded(h) ==
    LET className == ValueOf(h, 1)
    IN  IF Len(h) >= 1 /\ h[1].st = "ok" /\ className.t # "string" THEN Throw
        ELSE Run(<<Call([Lib("locator.getAttribute", "body") EXCEPT !.text = "class"])>>,
                 h,
                 IF className.t = "string"
                       /\ includes(CellChars(className.s), <<"d", "a", "r", "k">>)
                 THEN JSStr("dark") ELSE JSStr("light"))

\* return className && className.includes('dark') ? 'dark' : 'light'
getCurrentTheme(h) ==
    LET className == ValueOf(h, 1)
    IN  Run(<<Call([Lib("locator.getAttribute", "body") EXCEPT !.text = "class"])>>,
            h,
            IF className.t = "string" /\ className.s # ""
                  /\ includes(CellChars(className.s), <<"d", "a", "r", "k">>)
            THEN JSStr("dark") ELSE JSStr("light"))

\* The test 'Theme Toggle Tests' from its first getCurrentTheme on:
\* initialTheme = await getCurrentTheme(); await toggleTheme();
\* newTheme = await getCurrentTheme(); expect(newTheme).not.toBe(initialTheme)
ThemeToggleTests(h) ==
    LET prog == <<getCurrentTheme(<<>>)>> \o toggleTheme \o <<getCurrentTheme(<<>>)>>
        n == Len(prog)
        initialTheme == getCurrentTheme(SubSeq(h, 1, 1))
        newTheme == getCurrentTheme(SubSeq(h, n, n))
    IN  IF Rejected(h) # {} THEN Throw
        ELSE IF Len(h) >= 1 /\ h[1].st = "ok" /\ initialTheme.k = "throw" THEN Throw
        ELSE IF Len(h) < n THEN prog[Len(h) + 1]
        ELSE IF newTheme.k = "throw" THEN Throw
        ELSE IF newTheme.val # initialTheme.val THEN Return(JSUndefined)
        ELSE Throw

(***************************************************************************)
(* Running a method                                                        *)
(***************************************************************************)
Classes == {"LoginPage", "DashboardPage", "TenantManagementPage", "UserAssignmentPage"}

\* {} : an object with no own property yet
EmptyObject == [f \in {} |-> JSUndefined]

\* o with o.f = v
Put(o, f, v) == [x \in DOMAIN o \cup {f} |-> IF x = f THEN v ELSE o[x]]

Constructor(cls, page) ==
    CASE cls = "LoginPage" -> LoginPage_constructor(cls, PageHandle(page))
      [] cls = "DashboardPage" -> DashboardPage_constructor(cls, PageHandle(page))
      [] cls = "TenantManagementPage" -> TenantManagementPage_constructor(cls, PageHandle(page))
      [] cls = "UserAssignmentPage" -> UserAssignmentPage_constructor(cls, PageHandle(page))

\* What the invocation f does next, the steps h being behind it.
Program(f, h) ==
    LET a == f.args
        m == f.method
    IN  CASE m = "constructor" -> Run(Constructor(f.this, a[1]), h, JSUndefined)
          [] m = "click" -> Run(click(a[1]), h, JSUndefined)
          [] m = "fill" -> Run(fill(a[1], a[2]), h, JSUndefined)
          [] m = "isVisible" -> isVisible(a[1], h)
          [] m = "login" -> Run(login(f.this, a[1], a[2]), h, JSUndefined)
          [] m = "isLoginSuccessful" -> isLoginSuccessful(h)
          [] m = "loginWithGoogle" -> loginWithGoogle(f.this, a[1], h)
          [] m = "isLoginFailed" -> isLoginFailed(h)
          [] m = "getErrorMessage" -> getErrorMessage(h)
          [] m = "isLoggedIn" -> isLoggedIn(h)
          [] m = "isPageLoaded" -> isPageLoaded(h)
          [] m = "toggleTheme" -> Run(toggleTheme, h, JSUndefined)
          [] m = "getCurrentTheme" -> getCurrentTheme(h)
          [] m = "Theme Toggle Tests" -> ThemeToggleTests(h)
          [] m = "createTenant" -> Run(createTenant(f.this, a[1]), h, JSUndefined)
          [] m = "editTenant" -> Run(editTenant(f.this, a[1], a[2]), h, JSUndefined)
          [] m = "validateTenantForm" -> Run(validateTenantForm(a[1]), h, ValueOf(h, 1))
          [] m = "clearTenantForm" -> Run(clearTenantForm(f.this), h, JSUndefined)
          [] m = "findTenantInList" -> findTenantInList(a[1], h)
          [] m = "getTenantListCount" -> getTenantListCount(h)
          [] m = "getTenantDetails" -> getTenantDetails(a[1], h)
          [] m = "assignUser" -> Run(assignUser(f.this, a[1], a[2]), h, JSUndefined)
          [] m = "isUserAssigned" -> isUserAssigned(a[1], h)
          [] m = "getUserAssignmentStatus" -> getUserAssignmentStatus(a[1], h)
          [] m = "getSuperAdminsCount" -> getSuperAdminsCount(h)
          [] m = "isAssignButtonVisible" -> isAssignButtonVisible(a[1], h)
          [] m = "getUserDetails" -> getUserDetails(a[1], h)

NoResult == [kind |-> "none", val |-> JSUndefined]

\* the constructor of the instance has run
Constructed(cls) == "page" \in DOMAIN objs[cls]

\* new cls(page): the object the constructor's assignments leave behind
Instance(cls, page) ==
    LET RECURSIVE Stored(_, _)
        Stored(o, prog) ==
            IF prog = <<>> THEN o
            ELSE Stored(Put(o, Head(prog).field, Head(prog).value), Tail(prog))
    IN  Stored(EmptyObject, Constructor(cls, page))

\* no test has opened a browser context of its own
NoSimulation == browser = <<>> /\ contexts = <<>> /\ pages = <<>> /\ tasks = <<>>

\* the runner before the first test case of a describe block whose
\* beforeEach has d statements
NoTest(d) ==
    [describe |-> d, page |-> 0, pc |-> "idle", built |-> 0, drove |-> JSUndefined,
     earlier |-> "none", check |-> JSUndefined]

\* the steps the method is suspended on
Pending(h) == {i \in 1..Len(h) : h[i].st = "pending"}

Awaiting(h) == {i \in Pending(h) : h[i].await}

\* the method is at an instruction (not suspended in an await, not ended)
AtInstruction == frame.pc = "run" /\ Awaiting(log) = {}

(***************************************************************************)
(* The page: what a library call may resolve with, or that it rejects      *)
(***************************************************************************)
Resolutions(c) ==
    CASE c.op = "waitForSelector" ->
            {[delay |-> d, val |-> JSUndefined] : d \in {x \in Delays : x <= c.timeout}}
      [] c.op \in {"isVisible", "locator.isVisible"} ->
            {[delay |-> 0, val |-> JSBool(b)] : b \in BOOLEAN}
      [] c.op = "locator.count" ->
            {[delay |-> 0, val |-> JSNum(n)] : n \in 0..MaxRows}
      [] c.op = "locator.all" ->
            {[delay |-> 0, val |-> JSNum(n)] : n \in 0..MaxCells}
      [] c.op = "locator.getAttribute" ->
            {[delay |-> 0, val |-> JSStr(s)] : s \in ClassNames}
                \cup {[delay |-> 0, val |-> JSNull]}
      [] c.op \in {"textContent", "locator.textContent"} ->
            {[delay |-> 0, val |-> JSStr(s)] : s \in CellTexts}
                \cup {[delay |-> 0, val |-> JSNull]}
      [] OTHER -> {[delay |-> 0, val |-> JSUndefined]}

\* a wait rejects when its timeout passes first; any other call may fail
Rejections(c) ==
    CASE c.op = "waitForSelector" ->
            {[delay |-> d] : d \in {x \in Delays : x > c.timeout}}
      [] OTHER -> {[delay |-> 0]}


(***************************************************************************)
(* Inputs                                                                  *)
(***************************************************************************)
EmailArgs == {undefined, "mehedimohammad213@gmail.com", "invalid@email.com"}

PasswordArgs == {undefined, "wrongpassword"}

SelectorArgs == {"button[type='submit']", "//table"}

TextArgs == {"", "ee"}

TenantNameArgs == {"ee", "@#$%"}

UserEmailArgs == {"mehedimohammad213@gmail.com"}

TenantDataArgs ==
    { omitted,
      [name |-> "ee", domain |-> "dev.cempal.craftsmenltd.com",
       contactEmail |-> "s@g.com", address |-> "eee"],
      [name |-> "ee", domain |-> "ee", contactEmail |-> "ee", address |-> "eee"],
      [name |-> " ", domain |-> "ee.com", contactEmail |-> "s@g", address |-> ""] }

UpdatedDataArgs ==
    { [address |-> "Updated Address"],
      [name |-> "eee", domain |-> "cempal.com", contactEmail |-> "s@g.com",
       address |-> "eee12"],
      [name |-> "", domain |-> "-ee.com", address |-> "eee12"],
      [domain |-> "ee", contactEmail |-> "a b@g.com"],
      [x \in {} |-> ""] }

AssignmentDataArgs ==
    { omitted,
      [tenantName |-> "ee", userGroup |-> "Tenant Admin", teamName |-> "Cutting Shoaib Vai"],
      [tenantName |-> "ee"] }

\* data the form check is asked about: the configured tenant, and data
\* that differ from well-formed data in the domain or in the e-mail
ValidationArgs ==
    LET wellFormed == [name |-> "ee", domain |-> "cempal.com", contactEmail |-> "s@g.com",
                       address |-> "eee"]
    IN  {testDataModule.tenant, [name |-> "ee"]}
        \cup {[wellFormed EXCEPT !.domain = d] :
                 d \in {"e-e.com", "ee-.com", "eee.c", "eee.c0m", "eee.com", "eee.",
                        "aaaaaaaaaaaaaaaaaaaaaaaaaaaaaaaaaaaaaaaaaaaaaaaaaaaaaaaaaaaaaaa.com",
                        "aaaaaaaaaaaaaaaaaaaaaaaaaaaaaaaaaaaaaaaaaaaaaaaaaaaaaaaaaaaaaaaa.com"}}
        \cup {[wellFormed EXCEPT !.contactEmail = e] :
                 e \in {"a@b@c.d", "s@.com", "s@g.", "@g.com", "s@g..com", "s@g.c m"}}

(***************************************************************************)
(* Actions                                                                 *)
(***************************************************************************)
Init ==
    /\ testData = testDataModule
    /\ objs = [c \in Classes |-> EmptyObject]
    /\ frame = [this |-> "", method |-> "", args |-> <<>>, pc |-> "idle"]
    /\ log = <<>>
    /\ appearsAfter = 0
    /\ result = NoResult
    /\ test = NoTest(4)
    /\ NoSimulation

Begin(this, method, args) ==
    /\ frame.pc # "run"
    /\ frame' = [this |-> this, method |-> method, args |-> args, pc |-> "run"]
    /\ log' = <<>>
    /\ result' = NoResult
    /\ appearsAfter' = 0
    /\ UNCHANGED <<testData, runVars>>

\* The order in which a spec file's beforeEach builds the page objects of a
\* test (each spec file builds a prefix of it).
BeforeEachOrder ==
    <<"LoginPage", "DashboardPage", "TenantManagementPage", "UserAssignmentPage">>

\* the classes beforeEach builds before cls
BuiltBefore(cls) ==
    {BeforeEachOrder[i] : i \in {j \in 1..Len(BeforeEachOrder) :
        \E k \in (j + 1)..Len(BeforeEachOrder) : BeforeEachOrder[k] = cls}}

\* new Cls(page), for the page of the test that begins
New(cls) ==
    \E p \in Pages :
        /\ \A c \in BuiltBefore(cls) :
              "page" \in DOMAIN objs[c] /\ objs[c]["page"] = PageHandle(p)
        /\ Begin(cls, "constructor", <<p>>)
        /\ objs' = [objs EXCEPT ![cls] = EmptyObject]

NewLoginPage == New("LoginPage")

NewDashboardPage == New("DashboardPage")

NewTenantManagementPage == New("TenantManagementPage")

NewUserAssignmentPage == New("UserAssignmentPage")

\* obj.method(args), obj an instance of cls
Invoke(cls, method, args) ==
    /\ Constructed(cls)
    /\ Begin(cls, method, args)
    /\ UNCHANGED objs

\* The method reaches a library call and suspends on it.
Issue ==
    /\ AtInstruction
    /\ LET ins == Program(frame, log)
       IN  /\ ins.k = "call"
           /\ log' = Append(log, [k |-> "call", call |-> ins.call, await |-> ins.await,
                                  st |-> "pending", val |-> JSUndefined])
    /\ UNCHANGED <<testData, objs, frame, appearsAfter, result, runVars>>

Settle(i, st, o) ==
    /\ log' = [log EXCEPT ![i].st = st, ![i].val = o.val]
    /\ appearsAfter' = IF log[i].call.op = "waitForSelector" THEN o.delay ELSE appearsAfter
    /\ UNCHANGED <<testData, objs, frame, result, runVars>>

\* The library resolves a pending call.
Resolve ==
    \E i \in Pending(log) : \E o \in Resolutions(log[i].call) : Settle(i, "ok", o)

\* The library rejects a pending call.
Reject ==
    \E i \in Pending(log) : \E o \in Rejections(log[i].call) :
        Settle(i, "throw", [delay |-> o.delay, val |-> JSUndefined])

\* target.field = value, target an instance or a sub-object of testData
StoreStep ==
    /\ AtInstruction
    /\ LET ins == Program(frame, log)
       IN  /\ ins.k = "store"
           /\ log' = Append(log, [k |-> "store",
                                  call |-> [Lib("store", ins.target) EXCEPT !.text = ins.field],
                                  await |-> TRUE, st |-> "ok", val |-> ins.value])
           /\ IF ins.target \in Classes
              THEN /\ objs' = [objs EXCEPT ![ins.target] = Put(@, ins.field, ins.value)]
                   /\ UNCHANGED testData
              ELSE /\ testData' = [testData EXCEPT ![ins.target] = Put(@, ins.field, ins.value)]
                   /\ UNCHANGED objs
    /\ UNCHANGED <<frame, appearsAfter, result, runVars>>

\* a computation inside the method: no library call, no suspension
LocalStep ==
    /\ AtInstruction
    /\ LET ins == Program(frame, log)
       IN  /\ ins.k = "local"
           /\ log' = Append(log, [k |-> "local", call |-> Lib(ins.fn, ""),
                                  await |-> TRUE, st |-> "ok", val |-> ins.val])
    /\ UNCHANGED <<testData, objs, frame, appearsAfter, result, runVars>>

\* The method returns: its promise resolves.
ReturnStep ==
    /\ AtInstruction
    /\ LET ins == Program(frame, log)
       IN  /\ ins.k = "return"
           /\ result' = [kind |-> "return", val |-> ins.val]
    /\ frame' = [frame EXCEPT !.pc = "done"]
    /\ UNCHANGED <<testData, objs, log, appearsAfter, runVars>>

\* An awaited call rejected outside any try: the method's promise rejects.
ThrowStep ==
    /\ AtInstruction
    /\ Program(frame, log).k = "throw"
    /\ result' = [kind |-> "throw", val |-> JSUndefined]
    /\ frame' = [frame EXCEPT !.pc = "done"]
    /\ UNCHANGED <<testData, objs, log, appearsAfter, runVars>>


\* The calls a test makes on its page objects: <<class, method, arguments>>.
MethodCalls ==
    {<<cls, "click", <<sel>>>> : cls \in Classes, sel \in SelectorArgs}
    \cup {<<cls, "fill", <<sel, text>>>> : cls \in Classes, sel \in SelectorArgs, text \in TextArgs}
    \cup {<<cls, "isVisible", <<sel>>>> : cls \in Classes, sel \in SelectorArgs}
    \cup {<<"LoginPage", "login", <<email, password>>>> :
             email \in EmailArgs, password \in PasswordArgs}
    \cup {<<"LoginPage", "isLoginSuccessful", <<>>>>}
    \cup {<<"DashboardPage", m, <<>>>> :
             m \in {"isLoggedIn", "isPageLoaded", "toggleTheme", "getCurrentTheme",
                    "Theme Toggle Tests"}}
    \cup {<<"TenantManagementPage", "createTenant", <<data>>>> : data \in TenantDataArgs}
    \cup {<<"TenantManagementPage", "editTenant", <<name, data>>>> :
             name \in TenantNameArgs, data \in UpdatedDataArgs}
    \cup {<<"TenantManagementPage", "validateTenantForm", <<data>>>> :
             data \in (TenantDataArgs \ {omitted}) \cup UpdatedDataArgs \cup ValidationArgs}
    \cup {<<"TenantManagementPage", m, <<name>>>> :
             m \in {"findTenantInList", "getTenantDetails"}, name \in TenantNameArgs}
    \cup {<<"TenantManagementPage", m, <<>>>> : m \in {"getTenantListCount", "clearTenantForm"}}
    \cup {<<"UserAssignmentPage", "assignUser", <<email, data>>>> :
             email \in UserEmailArgs, data \in AssignmentDataArgs}
    \cup {<<"UserAssignmentPage", m, <<email>>>> :
             m \in {"isUserAssigned", "getUserAssignmentStatus", "isAssignButtonVisible",
                    "getUserDetails"},
             email \in UserEmailArgs}
    \cup {<<"UserAssignmentPage", "getSuperAdminsCount", <<>>>>}

CallMethod == \E c \in MethodCalls : Invoke(c[1], c[2], c[3])

Next ==
    \/ NewLoginPage
    \/ NewDashboardPage
    \/ NewTenantManagementPage
    \/ NewUserAssignmentPage
    \/ CallMethod
    \/ Issue
    \/ Resolve
    \/ Reject
    \/ StoreStep
    \/ LocalStep
    \/ ReturnStep
    \/ ThrowStep

Spec == Init /\ [][Next]_vars


(***************************************************************************)
(* The test cases of a describe block, one after the other                 *)
(***************************************************************************)
\* test cases the runner runs from one spec file
MaxTests == 3

\* The describe blocks, by the number of statements of their beforeEach:
\* the comprehensive suite builds four page objects, the performance suite
\* three, the security and the accessibility suites two.
Describes == {4, 3, 2}

\* the page objects the beforeEach of describe block d assigns, in order
beforeEach(d) == SubSeq(BeforeEachOrder, 1, d)

SuiteInit ==
    /\ testData = testDataModule
    /\ objs = [c \in Classes |-> EmptyObject]
    /\ frame = [this |-> "", method |-> "", args |-> <<>>, pc |-> "idle"]
    /\ log = <<>>
    /\ appearsAfter = 0
    /\ result = NoResult
    /\ \E d \in Describes : test = NoTest(d)
    /\ NoSimulation

\* StartTest with a beforeAll in place of the beforeEach: the page objects
\* of the first test case are kept for the later ones
StartTest_beforeAll ==
    /\ test.pc \in {"idle", "passed", "failed"}
    /\ test.page < MaxTests
    /\ test' = [test EXCEPT !.page = @ + 1,
                            !.pc = IF test.page = 0 THEN "beforeEach" ELSE "body",
                            !.built = IF test.page = 0 THEN 0 ELSE @,
                            !.drove = JSUndefined, !.check = JSUndefined,
                            !.earlier = IF test.pc = "failed" THEN "failed"
                                        ELSE IF test.pc = "passed" /\ @ = "none" THEN "passed"
                                        ELSE @]
    /\ UNCHANGED <<testData, objs, frame, log, appearsAfter, result, browser, contexts, pages, tasks>>

\* The runner starts the next test case, whatever the one before came to:
\* it hands the test a fresh page and runs the hooks.  After a failed test
\* case the runner may go on in a new worker, where the describe block's
\* variables are undefined again.
StartTest ==
    /\ test.pc \in {"idle", "passed", "failed"}
    /\ test.page < MaxTests
    /\ test' = [test EXCEPT !.page = @ + 1, !.pc = "beforeEach", !.built = 0,
                            !.drove = JSUndefined, !.check = JSUndefined,
                            !.earlier = IF test.pc = "failed" THEN "failed"
                                        ELSE IF test.pc = "passed" /\ @ = "none" THEN "passed"
                                        ELSE @]
    /\ \E newWorker \in BOOLEAN :
          objs' = IF newWorker /\ test.pc = "failed"
                  THEN [c \in Classes |-> EmptyObject] ELSE objs
    /\ UNCHANGED <<testData, frame, log, appearsAfter, result, browser, contexts, pages, tasks>>

\* the next statement of beforeEach: <variable> = new <Class>(page)
BeforeEach ==
    /\ test.pc = "beforeEach"
    /\ LET cls == beforeEach(test.describe)[test.built + 1]
       IN  objs' = [objs EXCEPT ![cls] = Instance(cls, test.page)]
    /\ test' = [test EXCEPT !.built = @ + 1,
                            !.pc = IF test.built + 1 = test.describe THEN "body" ELSE @]
    /\ UNCHANGED <<testData, frame, log, appearsAfter, result, browser, contexts, pages, tasks>>

\* A step of the test body: await <variable>.<method>(...), which drives
\* the page of the object the variable holds; it completes or throws, and a
\* throw ends the test case.
Drive ==
    /\ test.pc = "body"
    /\ \E i \in 1..test.describe : \E ok \in BOOLEAN :
          test' = [test EXCEPT !.drove = objs[beforeEach(test.describe)[i]]["page"],
                                !.pc = IF ok THEN "body" ELSE "failed"]
    /\ UNCHANGED <<testData, objs, frame, log, appearsAfter, result, browser, contexts, pages, tasks>>

\* the promise an async method returns: pending, then fulfilled with a value
JSPromise(state, value) == [t |-> "promise", state |-> state, value |-> value]

\* expect(received).toBeTruthy() passes: received is none of false, 0, '',
\* null, undefined; an object, a promise included, is truthy
toBeTruthy(received) ==
    CASE received.t = "boolean" -> received.b
      [] received.t = "number" -> received.n # 0
      [] received.t = "string" -> received.s # ""
      [] received.t \in {"null", "undefined"} -> FALSE
      [] OTHER -> TRUE

\* A step of the test body: await expect(<variable>.<check>()).toBeTruthy().
\* The check is called and starts on the page; expect receives what the call
\* returned, the promise; the test goes on if the assertion passes and ends
\* failed if it does not.
ExpectCheck ==
    /\ test.pc = "body"
    /\ \E i \in 1..test.describe :
          LET received == JSPromise("pending", JSUndefined)
          IN  test' = [test EXCEPT !.drove = objs[beforeEach(test.describe)[i]]["page"],
                                    !.check = received,
                                    !.pc = IF toBeTruthy(received) THEN "body" ELSE "failed"]
    /\ UNCHANGED <<testData, objs, frame, log, appearsAfter, result, browser, contexts, pages, tasks>>

\* the check called last comes to its answer: its promise is fulfilled with
\* true or false (the boolean checks catch what the library throws)
CheckSettles ==
    /\ test.check = JSPromise("pending", JSUndefined)
    /\ \E b \in BOOLEAN : test' = [test EXCEPT !.check = JSPromise("fulfilled", JSBool(b))]
    /\ UNCHANGED <<testData, objs, frame, log, appearsAfter, result, browser, contexts, pages, tasks>>

\* the test body runs to its end
PassTest ==
    /\ test.pc = "body"
    /\ test' = [test EXCEPT !.pc = "passed"]
    /\ UNCHANGED <<testData, objs, frame, log, appearsAfter, result, browser, contexts, pages, tasks>>

SuiteNext ==
    \/ StartTest
    \/ BeforeEach
    \/ Drive
    \/ ExpectCheck
    \/ CheckSettles
    \/ PassTest

SuiteSpec == SuiteInit /\ [][SuiteNext]_vars


(***************************************************************************)
(* The test 'Concurrent User Simulation'                                   *)
(***************************************************************************)
\* The users the test simulates.  The test opens five contexts; the users
\* are interchangeable and the model runs Users of them.
Users == 3

\* Date.now() - startTime of a login that completed (ms)
LoginTimes == {4000, 12000}

\* context.newPage() with a shared context: every page opens in the first
newPage_inFirstContext(b, context, p) == [b EXCEPT ![1].pages = @ \cup {p}]

\* context.newPage(): the browser b with page p opened in context
newPage(b, context, p) == [b EXCEPT ![context].pages = @ \cup {p}]

\* the browser context page p was opened in
ContextOf(p) == CHOOSE c \in DOMAIN browser : p \in browser[c].pages

SimInit ==
    /\ testData = testDataModule
    /\ objs = <<>>
    /\ frame = [this |-> "", method |-> "", args |-> <<>>, pc |-> "idle"]
    /\ log = <<>>
    /\ appearsAfter = 0
    /\ result = NoResult
    /\ NoSimulation
    /\ test = [pc |-> "newContext", context |-> 0, thrown |-> FALSE,
               loginTimes |-> <<>>, closed |-> 0]

\* const context = await browser.newContext(), or it throws
NewContext ==
    /\ test.pc = "newContext"
    /\ \/ /\ browser' = Append(browser, [open |-> TRUE, pages |-> {}])
          /\ test' = [test EXCEPT !.pc = "newPage", !.context = Len(browser) + 1]
       \/ /\ test' = [test EXCEPT !.pc = "finally", !.thrown = TRUE]
          /\ UNCHANGED browser
    /\ UNCHANGED <<testData, objs, frame, log, appearsAfter, result, contexts, pages, tasks>>

\* const page = await context.newPage(); contexts.push(context);
\* pages.push(page) -- or newPage throws and nothing is pushed
NewPage ==
    /\ test.pc = "newPage"
    /\ \/ /\ browser' = newPage(browser, test.context, test.context)
          /\ contexts' = Append(contexts, test.context)
          /\ pages' = Append(pages, test.context)
          /\ test' = [test EXCEPT !.pc = IF Len(contexts) + 1 < Users THEN "newContext"
                                         ELSE "map"]
       \/ /\ test' = [test EXCEPT !.pc = "finally", !.thrown = TRUE]
          /\ UNCHANGED <<browser, contexts, pages>>
    /\ UNCHANGED <<testData, objs, frame, log, appearsAfter, result, tasks>>

\* pages.map with a callback that awaits each login before the next starts
MapLogins_oneByOne ==
    /\ test.pc = "map"
    /\ objs' = <<Instance("LoginPage", pages[1])>>
    /\ tasks' = <<[at |-> 1, st |-> "pending", time |-> 0, on |-> PageHandle(pages[1])]>>
    /\ test' = [test EXCEPT !.pc = "awaitAll"]
    /\ UNCHANGED <<testData, frame, log, appearsAfter, result, browser, contexts, pages>>

\* const loginPromises = pages.map(async (page, index) => ...): every
\* callback runs, without a pause, up to its first await -- it builds its
\* own LoginPage and login() issues its first library call.
MapLogins ==
    /\ test.pc = "map"
    /\ objs' = [i \in 1..Len(pages) |-> Instance("LoginPage", pages[i])]
    /\ tasks' = [i \in 1..Len(pages) |->
                    [at |-> 1, st |-> "pending", time |-> 0, on |-> PageHandle(pages[i])]]
    /\ test' = [test EXCEPT !.pc = "awaitAll"]
    /\ UNCHANGED <<testData, frame, log, appearsAfter, result, browser, contexts, pages>>

\* The library call a login task awaits settles.  Resolved, the task goes
\* on to its next call, or past the last one returns its login time;
\* rejected, the task rejects.  A call on a page whose context was closed
\* can only reject.
LoginStep ==
    \E i \in DOMAIN tasks :
        /\ tasks[i].st = "pending"
        /\ LET prog == login(i, undefined, undefined)
               c == prog[tasks[i].at].call
           IN  \/ /\ browser[ContextOf(pages[i])].open
                     /\ Resolutions(c) # {}
                     /\ IF tasks[i].at < Len(prog)
                        THEN tasks' = [tasks EXCEPT ![i].at = @ + 1,
                                                    ![i].on = objs[i]["page"]]
                        ELSE \E t \in LoginTimes :
                                tasks' = [tasks EXCEPT ![i].st = "resolved", ![i].at = 0,
                                                       ![i].time = t]
               \/ /\ Rejections(c) # {}
                     /\ tasks' = [tasks EXCEPT ![i].st = "rejected", ![i].at = 0]
        /\ UNCHANGED <<testData, objs, frame, log, appearsAfter, result, test, browser,
                       contexts, pages>>

\* Promise.all settling as soon as one task has resolved
PromiseAll_any ==
    /\ test.pc = "awaitAll"
    /\ \E i \in DOMAIN tasks : tasks[i].st = "resolved"
    /\ test' = [test EXCEPT !.pc = "expect",
                            !.loginTimes = [i \in DOMAIN tasks |-> tasks[i].time]]
    /\ UNCHANGED <<testData, objs, frame, log, appearsAfter, result, browser, contexts,
                   pages, tasks>>

\* const loginTimes = await Promise.all(loginPromises): the values in the
\* order of the promises once all have resolved, or the rejection of the
\* first task that rejects.
PromiseAll ==
    /\ test.pc = "awaitAll"
    /\ \/ /\ \A i \in DOMAIN tasks : tasks[i].st = "resolved"
          /\ test' = [test EXCEPT !.pc = "expect",
                                  !.loginTimes = [i \in DOMAIN tasks |-> tasks[i].time]]
       \/ /\ \E i \in DOMAIN tasks : tasks[i].st = "rejected"
          /\ test' = [test EXCEPT !.pc = "finally", !.thrown = TRUE]
    /\ UNCHANGED <<testData, objs, frame, log, appearsAfter, result, browser, contexts,
                   pages, tasks>>

\* for (const loginTime of loginTimes) expect(loginTime).toBeLessThan(10000)
ExpectTimes ==
    /\ test.pc = "expect"
    /\ test' = [test EXCEPT !.pc = "finally",
                            !.thrown = \E i \in DOMAIN test.loginTimes :
                                          ~(test.loginTimes[i] < 10000)]
    /\ UNCHANGED <<testData, objs, frame, log, appearsAfter, result, browser, contexts,
                   pages, tasks>>

\* finally: for (const context of contexts) await context.close() -- a
\* close that throws leaves the loop
CloseContext ==
    /\ test.pc = "finally"
    /\ test.closed < Len(contexts)
    /\ \/ /\ browser' = [browser EXCEPT ![contexts[test.closed + 1]].open = FALSE]
          /\ test' = [test EXCEPT !.closed = @ + 1]
       \/ /\ test' = [test EXCEPT !.pc = "done", !.thrown = TRUE]
          /\ UNCHANGED browser
    /\ UNCHANGED <<testData, objs, frame, log, appearsAfter, result, contexts, pages, tasks>>

\* the finally block is through: the test passes, or fails with what was thrown
EndTest ==
    /\ test.pc = "finally"
    /\ test.closed = Len(contexts)
    /\ test' = [test EXCEPT !.pc = "done"]
    /\ UNCHANGED <<testData, objs, frame, log, appearsAfter, result, browser, contexts,
                   pages, tasks>>

SimNext ==
    \/ NewContext
    \/ NewPage
    \/ MapLogins
    \/ LoginStep
    \/ PromiseAll
    \/ ExpectTimes
    \/ CloseContext
    \/ EndTest

SimSpec == SimInit /\ [][SimNext]_vars


(***************************************************************************)
(* A test that calls the LoginPage methods that ask isVisible               *)
(* (isLoginFailed, getErrorMessage, loginWithGoogle), the login page built *)
(* on its page                                                             *)
(***************************************************************************)
ErrorInit ==
    /\ testData = testDataModule
    /\ \E p \in Pages :
          objs = [c \in Classes |->
                     IF c = "LoginPage" THEN Instance(c, p) ELSE EmptyObject]
    /\ frame = [this |-> "", method |-> "", args |-> <<>>, pc |-> "idle"]
    /\ log = <<>>
    /\ appearsAfter = 0
    /\ result = NoResult
    /\ test = NoTest(4)
    /\ NoSimulation

\* a call of one of the LoginPage methods that ask isVisible
AskVisible ==
    \E c \in {<<"isLoginFailed", <<>>>>, <<"getErrorMessage", <<>>>>}
              \cup {<<"loginWithGoogle", <<email>>>> : email \in EmailArgs} :
        Invoke("LoginPage", c[1], c[2])

ErrorNext ==
    \/ AskVisible
    \/ Issue
    \/ Resolve
    \/ Reject
    \/ ReturnStep
    \/ ThrowStep

ErrorSpec == ErrorInit /\ [][ErrorNext]_vars

(***************************************************************************)
(* The test cases as the library calls they make on the page, and what the *)
(* page keeps between them: whether it was navigated, the session, and     *)
(* which dropdowns are open                                                *)
(***************************************************************************)
\* LoginPage.navigateToLogin: goto('/login'), waitForPageLoad()
navigateToLogin == goto("/login") \o waitForNavigation

\* DashboardPage.logout
logout(this) ==
    click(Sel(this, "accountCircle")) \o wait(1000)
        \o click(Sel(this, "logoutButton")) \o waitForNavigation

\* The body of the test 'Complete Cempal Portal Test Flow - All 71 Steps':
\* the library calls of its awaited page-object calls, each with the number
\* of the step it belongs to.  Screenshots, console output and expectations
\* on the URL or on promises click nothing and fill nothing.
CompleteTestFlow ==
    LET L == "LoginPage"
        D == "DashboardPage"
        T == "TenantManagementPage"
        U == "UserAssignmentPage"
        email == testData.credentials.email
        password == testData.credentials.password
        \* DashboardPage.waitForDashboardLoad
        waitForDashboardLoad ==
            waitForElement("//img[@alt=\"tenantLogo\"]", waitForElement_timeout)
                \o waitForNavigation
        S(n, prog) == [i \in 1..Len(prog) |-> [step |-> n, call |-> prog[i].call]]
    IN  S(1, navigateToLogin)
        \o S(2, enterEmail(L, email))
        \o S(3, enterPassword(L, password))
        \o S(4, click("//div[@class=\"login gutter-sm\"]"))
        \o S(5, click(Sel(L, "googleSignInButton")))
        \o S(6, click("//div[normalize-space()='" \o testData.credentials.googleEmail \o "']"))
        \o S(7, enterEmail(L, email))
        \o S(8, enterPassword(L, password))
        \o S(9, click(Sel(L, "resetPasswordButton")))
        \o S(10, clickSignIn(L) \o waitForDashboardLoad)
        \o S(11, click(Sel(D, "accountCircle")))
        \o S(12, click(Sel(D, "privacyPolicyLink")))
        \o S(13, click(Sel(D, "dashboardButton")))
        \o S(14, click(Sel(D, "tenantLogo")))
        \o S(15, logout(D))
        \o S(16, enterEmail(L, email))
        \o S(17, enterPassword(L, password))
        \o S(18, clickSignIn(L) \o waitForDashboardLoad)
        \o S(19, click(Sel(D, "tenantLogo")))
        \o S(20, toggleTheme)
        \o S(21, toggleTheme)
        \o S(22, click(Sel(D, "tenantListLink")) \o waitForNavigation
                   \o waitForElement("//table", waitForElement_timeout) \o waitForNavigation)
        \o S(23, clickCreateNewTenant(T))
        \o S(24, fillTenantName(T, "ee"))
        \o S(25, fillDomainName(T, "ee"))
        \o S(26, fillContactEmail(T, "ee"))
        \o S(27, click("//textarea[@id=\"address\"]"))
        \o S(28, fillAddress(T, "eee"))
        \o S(29, click("//div[@class=\"ant-modal-content\"]"))
        \o S(30, fillContactEmail(T, "s@g.com"))
        \o S(31, fillDomainName(T, ""))
        \o S(32, fillDomainName(T, "dev.cempal.craftsmenltd.com"))
        \o S(33, clickCreateTenantSubmit(T))
        \o S(34, fillDomainName(T, "dev.cem0pal.craftsmenltd.com"))
        \o S(35, click("//svg[@aria-label='send']"))
        \o S(36, clickTenantAction("ee", "read_more"))
        \o S(37, click("//*[@fill-rule='evenodd']"))
        \o S(38, clickTenantAction("ee", "edit_note"))
        \o S(39, click("//textarea[@id=\"address\"]"))
        \o S(40, fillAddress(T, "eee12"))
        \o S(41, clickUpdateTenant(T))
        \o S(42, clickTenantAction("ee", "edit_note"))
        \o S(43, click("//div[@class=\"ant-modal-wrap\"]"))
        \o S(44, click("//button[@type=\"submit\"]"))
        \o S(45, clickTenantAction("ee", "groups"))
        \o S(46, click("//*[@fill-rule='evenodd']"))
        \o S(47, click(Sel(D, "superAdminsLink")) \o waitForNavigation
                   \o waitForElement("//table", waitForElement_timeout) \o waitForNavigation)
        \o S(48, clickAssignButton("mehedimohammad213@gmail.com"))
        \o S(49, clickTenantDropdown(U))
        \o S(50, selectTenant(U, "@#$%"))
        \o S(51, clickGroupDropdown(U))
        \o S(52, selectUserGroup(U, "Tenant Admin"))
        \o S(53, clickTeamDropdown(U))
        \o S(54, selectTeam(U, "Cutting Shoaib Vai"))
        \o S(55, clickAssignSubmit(U))
        \o S(56, click("//*[@fill-rule='evenodd']"))
        \o S(57, click(Sel(D, "tenantLogo")))
        \o S(58, click(Sel(D, "privacyPolicyLink")))
        \o S(59, click(Sel(D, "dashboardButton")))
        \o S(60, click(Sel(D, "accountCircle")))
        \o S(61, logout(D))
        \o S(62, enterEmail(L, email))
        \o S(63, enterPassword(L, password))
        \o S(64, clickSignIn(L) \o waitForDashboardLoad)
        \o S(65, <<Call(Lib("reload", ""))>>)
        \o S(66, enterEmail(L, email))
        \o S(67, enterPassword(L, password))
        \o S(68, click("//img[@alt='Cempal Logo']"))
        \o S(69, click("//span[normalize-space()='Get Started']"))
        \o S(70, enterEmail(L, email))
        \o S(71, enterPassword(L, password))

\* The test cases by name, each as the library calls of its awaited
\* page-object calls (step 0 where the test numbers no steps).
TestBody ==
    LET S(prog) == [i \in 1..Len(prog) |-> [step |-> 0, call |-> prog[i].call]]
    IN  ("Complete Cempal Portal Test Flow - All 71 Steps" :> CompleteTestFlow)
        @@ ("Login Functionality Tests" :>
                S(navigateToLogin \o login("LoginPage", undefined, undefined)
                      \o logout("DashboardPage")))
        @@ ("Tenant Management Tests" :>
                S(login("LoginPage", undefined, undefined)
                      \o click(Sel("DashboardPage", "tenantListLink")) \o waitForNavigation
                      \o createTenant("TenantManagementPage", omitted)
                      \o editTenant("TenantManagementPage", "ee",
                                    [address |-> "Updated Address"])))
        @@ ("API Response Time Tests" :> S(login("LoginPage", undefined, undefined)))

\* the controls a click opens and the next click on them closes
ToggleControls ==
    { testDataModule.selectors.accountCircle, testDataModule.selectors.tenantSelect,
      testDataModule.selectors.groupSelect, testDataModule.selectors.teamSelect }

\* The pages a library call may leave behind when it resolves, p the page
\* before it.  goto navigates; a click on a toggle control opens or closes
\* it; the click on Sign In logs in when the portal accepts the
\* credentials; the click on the logout button logs out; a reload keeps the
\* session; goto and reload load a page with every dropdown closed.  The
\* tenant logo is shown to a logged-in session only (DashboardPage.isLoggedIn
\* takes it for the sign of one), so a wait for it resolves in no other.
PageAfter(p, c) ==
    LET clicked == [p EXCEPT !.clicks = <<p.clicks[2], c.sel>>]
    IN  CASE c.op = "goto" -> {[p EXCEPT !.navigated = TRUE, !.open = {}]}
          [] c.op = "reload" -> {[p EXCEPT !.open = {}]}
          [] c.op = "waitForSelector" /\ c.sel = "//img[@alt=\"tenantLogo\"]" ->
                IF p.session = "in" THEN {p} ELSE {}
          [] c.op = "click" /\ c.sel \in ToggleControls ->
                {[clicked EXCEPT !.open = (p.open \ {c.sel}) \cup ({c.sel} \ p.open)]}
          [] c.op = "click" /\ c.sel = testDataModule.selectors.signInButton ->
                {[clicked EXCEPT !.session = s] : s \in {p.session, "in"}}
          [] c.op = "click" /\ c.sel = testDataModule.selectors.logoutButton ->
                {[clicked EXCEPT !.session = "out"]}
          [] c.op \in {"click", "locator.click"} -> {clicked}
          [] OTHER -> {p}

FlowInit ==
    /\ testData = testDataModule
    /\ \E p \in Pages : objs = [c \in Classes |-> Instance(c, p)]
    /\ frame = [this |-> "", method |-> "", args |-> <<>>, pc |-> "idle"]
    /\ log = <<>>
    /\ appearsAfter = 0
    /\ result = NoResult
    /\ test = [name |-> "", pc |-> "idle", at |-> 0, step |-> 0, call |-> Lib("", ""),
               page |-> [navigated |-> FALSE, session |-> "out", open |-> {},
                         clicks |-> <<"", "">>]]
    /\ NoSimulation

\* A test case begins, on the fresh page of its own browser context.
StartCase ==
    /\ test.pc # "run"
    /\ \E name \in DOMAIN TestBody :
          test' = [name |-> name, pc |-> "run", at |-> 0, step |-> 0, call |-> Lib("", ""),
                   page |-> [navigated |-> FALSE, session |-> "out", open |-> {},
                             clicks |-> <<"", "">>]]
    /\ UNCHANGED <<testData, objs, frame, log, appearsAfter, result, browser, contexts,
                   pages, tasks>>

\* The next library call of the test resolves.
CallResolves ==
    /\ test.pc = "run" /\ test.at < Len(TestBody[test.name])
    /\ LET next == TestBody[test.name][test.at + 1]
       IN  \E p \in PageAfter(test.page, next.call) :
               test' = [test EXCEPT !.at = @ + 1, !.step = next.step,
                                    !.call = next.call, !.page = p]
    /\ UNCHANGED <<testData, objs, frame, log, appearsAfter, result, browser, contexts,
                   pages, tasks>>

\* The next library call of the test rejects: the test fails there.
CallRejects ==
    /\ test.pc = "run" /\ test.at < Len(TestBody[test.name])
    /\ test' = [test EXCEPT !.pc = "failed"]
    /\ UNCHANGED <<testData, objs, frame, log, appearsAfter, result, browser, contexts,
                   pages, tasks>>

\* The test has made its last call.
CasePasses ==
    /\ test.pc = "run" /\ test.at = Len(TestBody[test.name])
    /\ test' = [test EXCEPT !.pc = "passed"]
    /\ UNCHANGED <<testData, objs, frame, log, appearsAfter, result, browser, contexts,
                   pages, tasks>>

FlowNext ==
    \/ StartCase
    \/ CallResolves
    \/ CallRejects
    \/ CasePasses

FlowSpec == FlowInit /\ [][FlowNext]_vars

(***************************************************************************)
(* The test 'API Response Time Tests', from the registration of its        *)
(* listeners on                                                            *)
(***************************************************************************)
\* The requests the page sends while the test listens, at most.
MaxRequests == 2

\* The last reading of Date.now() (ms after the listeners are registered).
MaxClock == 4000

\* URLs the page requests: two API end points and an image
ApiUrls ==
    { "https://dev.cempal.craftsmenltd.com/api/tenants",
      "https://dev.cempal.craftsmenltd.com/graphql",
      "https://dev.cempal.craftsmenltd.com/logo.png" }

\* The listeners are registered, requests and responses are empty.  A
\* request the page sent before that (id 0) may still be unanswered.  The
\* test records url, method, status and timestamp; which request a response
\* answers (answers) is known to the page only.
ApiInit ==
    /\ testData = testDataModule
    /\ objs = [c \in Classes |-> EmptyObject]
    /\ frame = [this |-> "", method |-> "", args |-> <<>>, pc |-> "idle"]
    /\ log = <<>>
    /\ appearsAfter = 0
    /\ result = NoResult
    /\ \E early \in {{}} \cup {{[id |-> 0, url |-> u, sent |-> 0]} : u \in ApiUrls} :
          test = [pc |-> "listening", clock |-> 0, inFlight |-> early, sent |-> 0,
                  requests |-> <<>>, responses |-> <<>>, answers |-> <<>>,
                  times |-> <<>>]
    /\ NoSimulation

\* page.on('request', request => requests.push({ url, method, timestamp }))
OnRequest ==
    /\ test.pc = "listening" /\ test.sent < MaxRequests
    /\ \E u \in ApiUrls, now \in {test.clock, test.clock + 2000} :
          /\ now <= MaxClock
          /\ test' = [test EXCEPT
                 !.clock = now, !.sent = @ + 1,
                 !.inFlight = @ \cup {[id |-> test.sent + 1, url |-> u, sent |-> now]},
                 !.requests = Append(@, [url |-> u, method |-> "GET", timestamp |-> now])]
    /\ UNCHANGED <<testData, objs, frame, log, appearsAfter, result, browser, contexts,
                   pages, tasks>>

\* page.on('response', response => responses.push({ url, status, timestamp }))
OnResponse ==
    /\ test.pc = "listening"
    /\ \E r \in test.inFlight, now \in {test.clock, test.clock + 2000} :
          /\ now <= MaxClock
          /\ test' = [test EXCEPT
                 !.clock = now, !.inFlight = @ \ {r},
                 !.responses = Append(@, [url |-> r.url, status |-> 200, timestamp |-> now]),
                 !.answers = Append(@, r)]
    /\ UNCHANGED <<testData, objs, frame, log, appearsAfter, result, browser, contexts,
                   pages, tasks>>

\* The loop over apiResponses after the tenant list has loaded: for each
\* response whose URL includes '/api/' or '/graphql', the first request
\* with the same URL, the difference of the timestamps, and the
\* expectation that ends the test when the difference is 2000 or more.
Measure ==
    /\ test.pc = "listening"
    /\ LET UrlChars(u) ==
               CASE u = "https://dev.cempal.craftsmenltd.com/api/tenants" ->
                        <<"h", "t", "t", "p", "s", ":", "/", "/", "d", "e", "v", ".", "c",
                        "e", "m", "p", "a", "l", ".", "c", "r", "a", "f", "t", "s", "m", "e",
                        "n", "l", "t", "d", ".", "c", "o", "m", "/", "a", "p", "i", "/", "t",
                        "e", "n", "a", "n", "t", "s">>
                  [] u = "https://dev.cempal.craftsmenltd.com/graphql" ->
                        <<"h", "t", "t", "p", "s", ":", "/", "/", "d", "e", "v", ".", "c",
                        "e", "m", "p", "a", "l", ".", "c", "r", "a", "f", "t", "s", "m", "e",
                        "n", "l", "t", "d", ".", "c", "o", "m", "/", "g", "r", "a", "p", "h",
                        "q", "l">>
                  [] u = "https://dev.cempal.craftsmenltd.com/logo.png" ->
                        <<"h", "t", "t", "p", "s", ":", "/", "/", "d", "e", "v", ".", "c",
                        "e", "m", "p", "a", "l", ".", "c", "r", "a", "f", "t", "s", "m", "e",
                        "n", "l", "t", "d", ".", "c", "o", "m", "/", "l", "o", "g", "o", ".",
                        "p", "n", "g">>
           IsApi(u) ==
               \/ includes(UrlChars(u), <<"/", "a", "p", "i", "/">>)
               \/ includes(UrlChars(u), <<"/", "g", "r", "a", "p", "h", "q", "l">>)
           Find(url) ==
               LET found == {j \in 1..Len(test.requests) : test.requests[j].url = url}
               IN  IF found = {} THEN 0
                   ELSE CHOOSE j \in found : \A k \in found : j <= k
           RECURSIVE Loop(_, _)
           Loop(i, times) ==
               IF i > Len(test.responses) THEN [pc |-> "passed", times |-> times]
               ELSE LET response == test.responses[i]
                        request == Find(response.url)
                        responseTime == response.timestamp - test.requests[request].timestamp
                    IN  IF ~IsApi(response.url) \/ request = 0 THEN Loop(i + 1, times)
                        ELSE IF responseTime < 2000
                             THEN Loop(i + 1, Append(times, [response |-> i,
                                                             responseTime |-> responseTime]))
                             ELSE [pc |-> "failed",
                                   times |-> Append(times, [response |-> i,
                                                            responseTime |-> responseTime])]
           end == Loop(1, <<>>)
       IN  test' = [test EXCEPT !.pc = end.pc, !.times = end.times]
    /\ UNCHANGED <<testData, objs, frame, log, appearsAfter, result, browser, contexts,
                   pages, tasks>>

ApiNext ==
    \/ OnRequest
    \/ OnResponse
    \/ Measure

ApiSpec == ApiInit /\ [][ApiNext]_vars

(***************************************************************************)
(* The row-scoped clicks (clickTenantAction, clickAssignButton) on a page  *)
(* that shows a table                                                      *)
(***************************************************************************)
\* Rows a table may show, as the texts of their cells: tenants by name and
\* domain, users by e-mail and name.
TableRows ==
    [ clickTenantAction |->
          {<<"ee", "cempal.com">>, <<"eee", "cempal.com">>, <<"eee12", "ee.com">>},
      clickAssignButton |-> {<<"s@g.com", "ee">>, <<"s@g", "eee">>} ]

\* //tr[td[contains(text(),'<text>')]]: the row has a cell whose text
\* contains the given text
RowMatches(row, text) == \E i \in 1..Len(row) : includes(Chars(row[i]), Chars(text))

\* the page shows a table of up to MaxRows rows; nothing was clicked
RowInit ==
    /\ testData = testDataModule
    /\ objs = [c \in Classes |-> EmptyObject]
    /\ frame = [this |-> "", method |-> "", args |-> <<>>, pc |-> "idle"]
    /\ log = <<>>
    /\ appearsAfter = 0
    /\ result = NoResult
    /\ \E m \in DOMAIN TableRows, n \in 0..MaxRows :
          \E table \in [1..n -> TableRows[m]] :
              /\ \A i, j \in 1..n : table[i] = table[j] => i = j
              /\ test = [method |-> m, table |-> table, key |-> "",
                         call |-> Lib("", ""), st |-> "", clicked |-> 0]
    /\ NoSimulation

\* clickTenantAction(key, action) or clickAssignButton(key): the locator's
\* click.  It clicks the button in the one row the row locator matches; it
\* rejects when the locator matches no row (time-out) or several (a locator
\* that resolves to more than one element is an error), or for any other
\* failure.
ClickInRow ==
    /\ \E key \in {row[1] : row \in TableRows[test.method]} :
       \E call \in IF test.method = "clickAssignButton"
                   THEN {clickAssignButton(key)[1].call}
                   ELSE {clickTenantAction(key, a)[1].call : a \in DOMAIN actionSelectors} :
          LET matched == {i \in 1..Len(test.table) : RowMatches(test.table[i], key)}
          IN  \/ /\ Cardinality(matched) = 1
                 /\ test' = [test EXCEPT !.key = key, !.call = call, !.st = "ok",
                                         !.clicked = CHOOSE i \in matched : TRUE]
              \/ test' = [test EXCEPT !.key = key, !.call = call, !.st = "throw",
                                      !.clicked = 0]
    /\ UNCHANGED <<testData, objs, frame, log, appearsAfter, result, browser, contexts,
                   pages, tasks>>

RowSpec == RowInit /\ [][ClickInRow]_vars

(***************************************************************************)
(* Properties                                                              *)
(***************************************************************************)
\* the invocation of method m has ended
Ended(m) == frame.method = m /\ frame.pc = "done"

\* the library calls of h, as (op, sel, state, timeout, text)
Calls(h) == SelectSeq(h, LAMBDA e : e.k = "call")

\* s is a prefix of t
IsPrefix(s, t) == Len(s) <= Len(t) /\ \A i \in 1..Len(s) : s[i] = t[i]

\* Every step but the last has resolved: no step was issued before the one
\* before it completed, and none after a step that rejected.
Sequential(h) == \A i \in 1..(Len(h) - 1) : h[i].st = "ok"

SomeRejected(h) == \E i \in 1..Len(h) : h[i].st = "throw"

\* C1: isVisible(selector) never throws. It returns false when the wait for
\* the selector (5000 ms) or the visibility query rejects, and true only
\* when the wait resolved and the library reported the element visible.
C1_IsVisibleNeverThrows ==
    /\ frame.method = "isVisible" => result.kind # "throw"
    /\ Ended("isVisible") =>
          /\ result.kind = "return"
          /\ SomeRejected(log) => result.val = JSBool(FALSE)
          /\ appearsAfter > 5000 => result.val = JSBool(FALSE)
          /\ result.val = JSBool(TRUE) =>
                /\ Len(log) = 2
                /\ log[1].call.op = "waitForSelector"
                /\ log[1].call.sel = frame.args[1]
                /\ log[1].call.timeout = 5000
                /\ log[1].st = "ok"
                /\ log[2].call.op = "isVisible"
                /\ log[2].call.sel = frame.args[1]
                /\ log[2].st = "ok"
                /\ log[2].val = JSBool(TRUE)

\* isVisible has ended with false because the visibility query rejected
C1_Witness ==
    /\ Ended("isVisible")
    /\ Len(log) = 2 /\ log[1].st = "ok" /\ log[2].st = "throw"
    /\ result = [kind |-> "return", val |-> JSBool(FALSE)]

\* the page actions of h (everything but the waits for a selector), as
\* (op, sel, state, text)
PageActions(h) ==
    LET a == SelectSeq(h, LAMBDA e : e.k = "call" /\ e.call.op # "waitForSelector")
    IN  [i \in 1..Len(a) |->
            [op |-> a[i].call.op, sel |-> a[i].call.sel,
             state |-> a[i].call.state, text |-> a[i].call.text]]

LoginActions(email, password) ==
    << [op |-> "fill", sel |-> "input[id='amplify-id-:r2:']", state |-> "",
        text |-> IF email = undefined THEN "mehedimohammad213@gmail.com" ELSE email],
       [op |-> "fill", sel |-> "input[id='amplify-id-:r5:']", state |-> "",
        text |-> IF password = undefined THEN "TempPass#60589" ELSE password],
       [op |-> "click", sel |-> "button[type='submit']", state |-> "", text |-> ""],
       [op |-> "waitForLoadState", sel |-> "", state |-> "networkidle", text |-> ""] >>

\* C2: login(email, password) fills the e-mail field, fills the password
\* field, clicks the sign-in button and waits for network idle, in this
\* order and each once; no step is issued before the one before it
\* completed, and none after a step that threw.
C2_LoginOrder ==
    frame.method = "login" =>
        /\ IsPrefix(PageActions(log), LoginActions(frame.args[1], frame.args[2]))
        /\ Sequential(log)
        /\ Ended("login") /\ result.kind = "return" =>
              PageActions(log) = LoginActions(frame.args[1], frame.args[2])
        /\ Ended("login") /\ result.kind = "throw" => log[Len(log)].st = "throw"

\* login has returned after all four actions
C2_Witness ==
    /\ Ended("login") /\ result.kind = "return"
    /\ Len(PageActions(log)) = 4
    /\ \A i \in 1..Len(log) : log[i].st = "ok"

LogoTimeout(m) ==
    CASE m = "isLoginSuccessful" -> 10000
      [] m = "isLoggedIn" -> 5000
      [] m = "isPageLoaded" -> 10000

\* C3: isLoginSuccessful, isLoggedIn and isPageLoaded return true exactly
\* when the tenant logo shows up within 10000, 5000 and 10000 ms, and false,
\* without throwing, when the wait fails.
C3_LogoChecks ==
    \A m \in {"isLoginSuccessful", "isLoggedIn", "isPageLoaded"} :
        /\ frame.method = m => result.kind # "throw"
        /\ Ended(m) =>
              /\ Len(log) = 1
              /\ log[1].call.op = "waitForSelector"
              /\ log[1].call.sel = "//img[@alt=\"tenantLogo\"]"
              /\ result = [kind |-> "return", val |-> JSBool(appearsAfter <= LogoTimeout(m))]
              /\ result.val = JSBool(log[1].st = "ok")

\* the logo showed up after 7000 ms: too late for isLoggedIn
C3_Witness ==
    /\ Ended("isLoggedIn")
    /\ appearsAfter = 7000
    /\ result = [kind |-> "return", val |-> JSBool(FALSE)]


\* the steps of h a reader of the method sees: the page actions and the
\* waits for a modal, as (op, sel, sub, state, timeout, text)
Steps(h) ==
    LET a == SelectSeq(h, LAMBDA e :
                 /\ e.k = "call"
                 /\ \/ e.call.op # "waitForSelector"
                    \/ e.call.sel = "//div[@class=\"ant-modal-content\"]")
    IN  [i \in 1..Len(a) |->
            [op |-> a[i].call.op, sel |-> a[i].call.sel, sub |-> a[i].call.sub,
             state |-> a[i].call.state, timeout |-> a[i].call.timeout,
             text |-> a[i].call.text]]

Step(op, sel) ==
    [op |-> op, sel |-> sel, sub |-> "", state |-> "", timeout |-> 0, text |-> ""]

\* the value createTenant / assignUser use for field f: the argument's, or
\* the configuration's when the argument or the field is left out
Given(data, f, configured) ==
    IF DOMAIN data = {"omitted"} \/ f \notin DOMAIN data THEN configured ELSE data[f]

CreateTenantSteps(data) ==
    << Step("click", "//span[normalize-space()='Create new Tenant']"),
       [Step("waitForSelector", "//div[@class=\"ant-modal-content\"]") EXCEPT
            !.timeout = 10000],
       [Step("fill", "#tenantName") EXCEPT !.text = Given(data, "name", "ee")],
       [Step("fill", "#domainName") EXCEPT
            !.text = Given(data, "domain", "dev.cem0pal.craftsmenltd.com")],
       [Step("fill", "#contact") EXCEPT !.text = Given(data, "contactEmail", "s@g.com")],
       [Step("fill", "#address") EXCEPT !.text = Given(data, "address", "eee12")],
       Step("click", "//span[normalize-space()='Create Tenant']"),
       [Step("waitForLoadState", "") EXCEPT !.state = "networkidle"] >>

\* C4: createTenant(data) clicks 'Create new Tenant', waits for the modal,
\* fills tenant name, domain name, contact e-mail and address, clicks
\* 'Create Tenant' and waits for navigation, in this order and each once;
\* the submit click is never issued before the four fields are filled.
C4_CreateTenantOrder ==
    frame.method = "createTenant" =>
        /\ IsPrefix(Steps(log), CreateTenantSteps(frame.args[1]))
        /\ Sequential(log)
        /\ Ended("createTenant") /\ result.kind = "return" =>
              Steps(log) = CreateTenantSteps(frame.args[1])
        /\ \A i \in 1..Len(log) :
              log[i].call.op = "click"
                /\ log[i].call.sel = "//span[normalize-space()='Create Tenant']" =>
                  Cardinality({j \in 1..(i - 1) :
                      log[j].call.op = "fill" /\ log[j].st = "ok"}) = 4

\* createTenant has returned, all eight steps done
C4_Witness ==
    /\ Ended("createTenant") /\ result.kind = "return"
    /\ Len(Steps(log)) = 8
    /\ frame.args[1] # omitted

AssignUserSteps(userEmail, data) ==
    << [Step("locator.click", "//tr[td[contains(text(),'" \o userEmail \o "')]]") EXCEPT
            !.sub = "//button[@type='button']//span[contains(text(),'Assign')]"],
       [Step("waitForSelector", "//div[@class=\"ant-modal-content\"]") EXCEPT
            !.timeout = 10000],
       Step("click", "#tenantId"),
       [Step("waitForTimeout", "") EXCEPT !.timeout = 1000],
       Step("click", "//div[@class='ant-select-item-option-content'][normalize-space()='"
                        \o Given(data, "tenantName", "@#$%") \o "']"),
       Step("click", "#userGroup"),
       [Step("waitForTimeout", "") EXCEPT !.timeout = 1000],
       Step("click", "//div[contains(text(),'"
                        \o Given(data, "userGroup", "Tenant Admin") \o "')]"),
       Step("click", "#teamId"),
       [Step("waitForTimeout", "") EXCEPT !.timeout = 1000],
       Step("click", "//div[@title='"
                        \o Given(data, "teamName", "Cutting Shoaib Vai") \o "']"),
       Step("click", "//button[@type='submit']//span[contains(text(),'Assign')]"),
       [Step("waitForLoadState", "") EXCEPT !.state = "networkidle"] >>

\* C6: assignUser(userEmail, data) clicks the Assign button of the user's
\* row, waits for the modal, selects the tenant, then the user group, then
\* the team, clicks the submit Assign button and waits for navigation, in
\* this order.
C6_AssignUserOrder ==
    frame.method = "assignUser" =>
        /\ IsPrefix(Steps(log), AssignUserSteps(frame.args[1], frame.args[2]))
        /\ Sequential(log)
        /\ Ended("assignUser") /\ result.kind = "return" =>
              Steps(log) = AssignUserSteps(frame.args[1], frame.args[2])

\* assignUser has returned after the submit click, the tenant passed in
C6_Witness ==
    /\ Ended("assignUser") /\ result.kind = "return"
    /\ Len(Steps(log)) = 13
    /\ frame.args[2] # omitted

\* the library calls of h, as (op, sel, state, timeout, text)
LibCalls(h) ==
    LET a == Calls(h)
    IN  [i \in 1..Len(a) |->
            [op |-> a[i].call.op, sel |-> a[i].call.sel, state |-> a[i].call.state,
             timeout |-> a[i].call.timeout, text |-> a[i].call.text]]

ClickCalls(selector) ==
    << [op |-> "waitForSelector", sel |-> selector, state |-> "visible",
        timeout |-> 10000, text |-> ""],
       [op |-> "waitForSelector", sel |-> selector, state |-> "attached",
        timeout |-> 10000, text |-> ""],
       [op |-> "click", sel |-> selector, state |-> "", timeout |-> 0, text |-> ""] >>

FillCalls(selector, text) ==
    << [op |-> "waitForSelector", sel |-> selector, state |-> "",
        timeout |-> 10000, text |-> ""],
       [op |-> "fill", sel |-> selector, state |-> "", timeout |-> 0, text |-> text] >>

\* C8: click and fill never retry. One call issues each wait and the click
\* or fill at most once; when a wait throws (after 10000 ms) the click or
\* fill is not issued and the exception reaches the caller.
C8_NoRetry ==
    /\ frame.method = "click" => IsPrefix(LibCalls(log), ClickCalls(frame.args[1]))
    /\ frame.method = "fill" =>
          IsPrefix(LibCalls(log), FillCalls(frame.args[1], frame.args[2]))
    /\ frame.method \in {"click", "fill"} =>
          /\ Sequential(log)
          /\ frame.pc = "done" => (result.kind = "throw" <=> SomeRejected(log))
          /\ frame.pc = "done" /\ result.kind = "return" =>
                log[Len(log)].call.op = frame.method

\* click has thrown because its first wait timed out; nothing was clicked
C8_Witness ==
    /\ Ended("click") /\ result.kind = "throw"
    /\ Len(log) = 1 /\ log[1].st = "throw" /\ appearsAfter > 10000


IsSubmit(e) ==
    /\ e.k = "call" /\ e.call.op = "click"
    /\ e.call.sel \in {"//span[normalize-space()='Create Tenant']",
                       "//span[normalize-space()='Update']"}

IsFormatCheck(e) == e.k = "local" /\ e.call.op = "validateTenantForm"

\* C5 as stated: createTenant and editTenant run the local format check
\* (validateTenantForm) on the data before they issue the submit click.
C5_CheckedBeforeSubmit ==
    frame.method \in {"createTenant", "editTenant"} =>
        \A i \in 1..Len(log) :
            IsSubmit(log[i]) => \E j \in 1..(i - 1) : IsFormatCheck(log[j])

\* C5, amended: createTenant and editTenant never run the local format
\* check; they submit the data as given.  The check exists only as the
\* separate method validateTenantForm, which calls nothing in the library
\* and returns the four flags.
C5_NoCheckBeforeSubmit ==
    /\ frame.method \in {"createTenant", "editTenant"} =>
          \A i \in 1..Len(log) : ~IsFormatCheck(log[i])
    /\ frame.method = "validateTenantForm" =>
          /\ Calls(log) = <<>>
          /\ Ended("validateTenantForm") =>
                /\ result.kind = "return"
                /\ result.val.t = "object"
                /\ DOMAIN result.val.o = {"tenantName", "domainName", "contactEmail", "address"}

\* createTenant has clicked 'Create Tenant' on data whose domain and
\* e-mail the local check rejects
C5_Witness ==
    /\ frame.method = "createTenant"
    /\ frame.args[1] # omitted
    /\ ~validation(frame.args[1]).domainName
    /\ ~validation(frame.args[1]).contactEmail
    /\ \E i \in 1..Len(log) : IsSubmit(log[i]) /\ log[i].st = "ok"

\* the method has returned although a library call it awaited rejected
Caught == frame.pc = "done" /\ result.kind = "return" /\ SomeRejected(log)

\* C7 as stated: a caught library exception always becomes false.
C7_CaughtBecomesFalse == Caught => result.val = JSBool(FALSE)

CaughtValue(m) ==
    CASE m \in {"getTenantListCount", "getSuperAdminsCount"} -> JSNum(0)
      [] m \in {"getTenantDetails", "getUserDetails"} -> JSNull
      [] m = "getUserAssignmentStatus" -> JSStr("Unknown")
      [] m \in {"isVisible", "findTenantInList", "isLoginSuccessful", "isLoggedIn",
                "isPageLoaded", "isUserAssigned", "isAssignButtonVisible"} -> JSBool(FALSE)

\* C7, amended: a caught library exception becomes false in the boolean
\* checks, 0 in getTenantListCount and getSuperAdminsCount, null in
\* getTenantDetails and getUserDetails, and 'Unknown' in
\* getUserAssignmentStatus; no other method catches.
C7_CaughtBecomesFallback ==
    Caught =>
        /\ frame.method \in
              {"getTenantListCount", "getSuperAdminsCount", "getTenantDetails",
               "getUserDetails", "getUserAssignmentStatus", "isVisible",
               "findTenantInList", "isLoginSuccessful", "isLoggedIn", "isPageLoaded",
               "isUserAssigned", "isAssignButtonVisible"}
        /\ result.val = CaughtValue(frame.method)

\* getTenantDetails has answered a rejected cell read with null
C7_Witness ==
    /\ Ended("getTenantDetails")
    /\ Len(log) >= 2 /\ log[Len(log)].st = "throw"
    /\ result = [kind |-> "return", val |-> JSNull]

\* C9: the configuration is read-only at runtime: testData keeps the value
\* it was loaded with, and every instance holds the one selector map.
C9_ConfigReadOnly ==
    /\ testData = testDataModule
    /\ \A c \in Classes :
          "selectors" \in DOMAIN objs[c] => objs[c]["selectors"] = Ref("selectors")

\* all four page objects are built and a login has run to its end
C9_Witness ==
    /\ \A c \in Classes : "selectors" \in DOMAIN objs[c]
    /\ Ended("login") /\ result.kind = "return"

\* no constructor is running
Built == frame.method # "constructor" \/ frame.pc = "done"

\* C10 as stated: every instance holds exactly the page handle and the
\* selector map.
C10_TwoFields ==
    Built => \A c \in Classes : Constructed(c) => DOMAIN objs[c] = {"page", "selectors"}

InstanceFields(c) ==
    CASE c \in {"LoginPage", "DashboardPage"} -> {"page", "selectors"}
      [] c = "TenantManagementPage" -> {"page", "selectors", "tenantData"}
      [] c = "UserAssignmentPage" -> {"page", "selectors", "userAssignmentData"}

\* C10, amended: a LoginPage or DashboardPage holds the page handle and the
\* selector map; a TenantManagementPage also holds a reference to the
\* configured tenant data and a UserAssignmentPage one to the configured
\* assignment data.  No method adds or changes instance state after
\* construction.
C10_InstanceState ==
    /\ [](Built => \A c \in Classes : Constructed(c) => DOMAIN objs[c] = InstanceFields(c))
    /\ [][frame.method # "constructor" /\ frame'.method # "constructor"
             => objs' = objs]_vars

\* a TenantManagementPage, fully built, has run createTenant to its end
C10_Witness ==
    /\ Ended("createTenant")
    /\ DOMAIN objs["TenantManagementPage"] = {"page", "selectors", "tenantData"}
    /\ objs["TenantManagementPage"]["tenantData"] = Ref("tenant")

\* C11: every page object a test case drives was constructed for that test
\* case's own page, also after an earlier test case failed mid-step: in the
\* test body every variable of the describe block holds an object built for
\* the running test's page, and so does the object driven last.
C11_OwnPageObjects ==
    test.pc \in {"body", "passed", "failed"} =>
        /\ \A i \in 1..test.describe :
              objs[beforeEach(test.describe)[i]]["page"] = PageHandle(test.page)
        /\ test.drove \in {JSUndefined, PageHandle(test.page)}

\* the test case after a failed one has driven a page object of its own page
C11_Witness ==
    /\ test.earlier = "failed"
    /\ test.page >= 2
    /\ test.drove = PageHandle(test.page)

\* the login tasks that have not settled
InFlight == {i \in DOMAIN tasks : tasks[i].st = "pending"}

\* C12: the parallel login tasks share no mutable state.  Each task has its
\* own LoginPage instance, bound to its own page of its own browser context,
\* and issues its library calls on that page; the configuration, the one
\* object all instances reach, keeps its load-time value; and under every
\* interleaving a step of one task changes nothing of another task.
C12_NoSharedState ==
    /\ [](\A i \in DOMAIN tasks :
            /\ objs[i]["page"] = PageHandle(pages[i])
            /\ tasks[i].on = PageHandle(pages[i])
            /\ contexts[i] = ContextOf(pages[i])
            /\ \A j \in DOMAIN tasks \ {i} :
                  /\ pages[j] # pages[i]
                  /\ ContextOf(pages[j]) # ContextOf(pages[i]))
    /\ [](testData = testDataModule)
    /\ [][tasks # <<>> =>
             /\ objs' = objs
             /\ \A i, j \in DOMAIN tasks :
                   tasks'[i] # tasks[i] /\ tasks'[j] # tasks[j] => i = j]_vars

\* two logins are in flight at different calls, the later task ahead
C12_Witness ==
    /\ Len(tasks) >= 2
    /\ {1, 2} \subseteq InFlight
    /\ tasks[1].at = 2 /\ tasks[2].at = 5

\* C13: the logins run in parallel.  No login starts before every context
\* and page exists; when the test awaits Promise.all every login task has
\* been started; and the login times are collected, in user order, only
\* once every task has resolved.
C13_ParallelLogins ==
    /\ test.pc \in {"newContext", "newPage", "map"} => tasks = <<>>
    /\ test.pc = "awaitAll" => Len(tasks) = Users
    /\ tasks # <<>> =>
          /\ Len(tasks) = Users /\ Len(contexts) = Users /\ Len(pages) = Users
          /\ Len(browser) = Users
    /\ test.loginTimes # <<>> =>
          /\ Len(test.loginTimes) = Users
          /\ \A i \in 1..Users :
                tasks[i].st = "resolved" /\ test.loginTimes[i] = tasks[i].time

\* the times of a slow first and a fast second user were collected, the
\* assertion on them failed and the test is over
C13_Witness ==
    /\ test.pc = "done" /\ test.thrown
    /\ Len(test.loginTimes) = Users
    /\ test.loginTimes[1] = 12000 /\ test.loginTimes[2] = 4000

\* C17: when the test has finished, every browser context it opened is
\* closed.
C17_AllContextsClosed ==
    test.pc = "done" => \A c \in DOMAIN browser : ~browser[c].open

\* C18 as the specification states it: no context is closed while a login
\* on one of its pages is in flight.
C18_ClosedAfterSettled ==
    \A i \in DOMAIN tasks : ~browser[ContextOf(pages[i])].open => i \notin InFlight

\* C18, amended: the clean-up starts only after Promise.all has settled,
\* that is once every login task has resolved or as soon as one has
\* rejected; only in the second case is a context closed while a login
\* is in flight.
C18_CleanUpAfterPromiseAll ==
    /\ tasks # <<>> /\ test.pc \in {"expect", "finally", "done"} =>
          \/ InFlight = {} /\ \A i \in DOMAIN tasks : tasks[i].st = "resolved"
          \/ \E i \in DOMAIN tasks : tasks[i].st = "rejected"
    /\ \A i \in InFlight :
          ~browser[ContextOf(pages[i])].open =>
              \E j \in DOMAIN tasks : tasks[j].st = "rejected"

\* the first user's context is closed while the login of the first user is
\* in flight, the last user's login having rejected
C18_Witness ==
    /\ Len(tasks) = Users
    /\ tasks[Users].st = "rejected"
    /\ 1 \in InFlight
    /\ ~browser[ContextOf(pages[1])].open

\* C14: an assertion on a boolean check aborts the test case when the check
\* resolves to false: a test case that asserted a check passes only if the
\* check resolved to true.
C14_FalseCheckAborts ==
    test.check = JSPromise("fulfilled", JSBool(FALSE)) => test.pc # "passed"

\* the theme getCurrentTheme made of the class attribute read at step i
ThemeAt(i) ==
    IF log[i].val \in {JSStr("dark"), JSStr("app dark-theme")} THEN "dark" ELSE "light"

ConfiguredSelectors == {testData.selectors[k] : k \in DOMAIN testData.selectors}

\* C16: every selector a page-object method passes to the library is a
\* value of the configuration's selector map (click, fill and isVisible
\* pass on the selector of their caller).
C16_SelectorsFromConfig ==
    frame.method \notin {"click", "fill", "isVisible", "constructor", "Theme Toggle Tests"} =>
        \A i \in 1..Len(log) :
            log[i].k = "call" /\ log[i].call.sel # "" =>
                log[i].call.sel \in ConfiguredSelectors

\* the value is missing, empty or whitespace only
Blank(s) == s = undefined \/ \A i \in 1..Len(Chars(s)) : Chars(s)[i] \in {" ", "\t", "\n"}

\* local@domain.tld: exactly one '@' with something before it, no
\* whitespace, and a dot strictly inside the part after the '@'
EmailForm(s) ==
    LET c == Chars(s)
        ats == {i \in 1..Len(c) : c[i] = "@"}
    IN  /\ s # undefined
        /\ Cardinality(ats) = 1
        /\ \A i \in 1..Len(c) : c[i] \notin {" ", "\t", "\n"}
        /\ \A at \in ats :
              /\ at > 1
              /\ \E k \in (at + 2)..(Len(c) - 1) : c[k] = "."

\* one label of 3 to 63 letters, digits or hyphens that starts and ends
\* with a letter or digit, then one dot, then at least two letters
DomainForm(s) ==
    LET c == Chars(s)
        dots == {i \in 1..Len(c) : c[i] = "."}
        alnum == Letters \cup Digits
    IN  /\ s # undefined
        /\ Cardinality(dots) = 1
        /\ \A d \in dots :
              /\ d - 1 >= 3 /\ d - 1 <= 63
              /\ \A i \in 1..(d - 1) : c[i] \in alnum \cup {"-"}
              /\ c[1] \in alnum /\ c[d - 1] \in alnum
              /\ Len(c) - d >= 2
              /\ \A i \in (d + 1)..Len(c) : c[i] \in Letters

\* C19: validateTenantForm(data) makes no library call and returns four
\* flags, each a function of its own field: tenantName and address are
\* false exactly when the value is missing or whitespace-only, contactEmail
\* is true exactly when the value has the form local@domain.tld, domainName
\* exactly when the value is one label of 3 to 63 characters, a dot and at
\* least two letters.
C19_FormFlags ==
    Ended("validateTenantForm") =>
        LET data == frame.args[1]
        IN  /\ Calls(log) = <<>>
            /\ result.kind = "return"
            /\ result.val =
                  JSObj([ tenantName |-> ~Blank(Field(data, "name")),
                          domainName |-> DomainForm(Field(data, "domain")),
                          contactEmail |-> EmailForm(Field(data, "contactEmail")),
                          address |-> ~Blank(Field(data, "address")) ])

\* the check has turned down a domain whose label is 64 characters long and
\* nothing else
C19_Witness ==
    /\ Ended("validateTenantForm")
    /\ "domain" \in DOMAIN frame.args[1]
    /\ Len(Chars(frame.args[1].domain)) = 68
    /\ result.val = JSObj([tenantName |-> TRUE, domainName |-> FALSE,
                            contactEmail |-> TRUE, address |-> TRUE])

\* C20: the tenant data of the configuration and the data the comprehensive
\* test has typed when it clicks 'Create Tenant' pass the form check in all
\* four fields.
C20_ShippedDataPasses ==
    /\ Ended("validateTenantForm")
    /\ frame.args[1] \in
          { testData.tenant,
            [name |-> "ee", domain |-> "dev.cempal.craftsmenltd.com",
             contactEmail |-> "s@g.com", address |-> "eee"] }
    => result.val = JSObj([tenantName |-> TRUE, domainName |-> TRUE,
                           contactEmail |-> TRUE, address |-> TRUE])

\* the page actions of editTenant(name, data): the click on the row's edit
\* button, one fill for each field of data that carries a non-empty value,
\* the click on Update and the wait for navigation
EditTenantActions(name, data) ==
    LET Fill(f, sel) ==
            IF f \in DOMAIN data /\ data[f] # ""
            THEN <<[op |-> "fill", sel |-> sel, state |-> "", text |-> data[f]]>>
            ELSE <<>>
    IN  <<[op |-> "locator.click", sel |-> "//tr[td[contains(text(),'" \o name \o "')]]",
           state |-> "", text |-> ""]>>
        \o Fill("name", "#tenantName") \o Fill("domain", "#domainName")
        \o Fill("contactEmail", "#contact") \o Fill("address", "#address")
        \o <<[op |-> "click", sel |-> "//span[normalize-space()='Update']",
               state |-> "", text |-> ""],
              [op |-> "waitForLoadState", sel |-> "", state |-> "networkidle",
               text |-> ""]>>

\* C21: editTenant(name, updatedData) fills exactly the fields of
\* updatedData that carry a non-empty value, in the order name, domain,
\* contact e-mail, address, and no other field (an empty string does not
\* clear a field); it then clicks Update and waits for navigation exactly
\* once, also when updatedData names no field.
C21_EditTenantFills ==
    frame.method = "editTenant" =>
        /\ IsPrefix(PageActions(log), EditTenantActions(frame.args[1], frame.args[2]))
        /\ Sequential(log)
        /\ Ended("editTenant") /\ result.kind = "return" =>
              PageActions(log) = EditTenantActions(frame.args[1], frame.args[2])

\* editTenant has returned for data whose name is the empty string: the
\* name field was not touched, domain and address were filled
C21_Witness ==
    /\ Ended("editTenant") /\ result.kind = "return"
    /\ frame.args[2] = [name |-> "", domain |-> "-ee.com", address |-> "eee12"]
    /\ Len(PageActions(log)) = 5

\* the steps of h at which a probe of an indicator begins (isVisible's wait)
ProbeAt(h) ==
    {i \in 1..Len(h) : h[i].call.op = "waitForSelector" /\ h[i].call.timeout = 5000}

\* the indicators h has probed, in the order of the probes
Probed(h) ==
    LET a == SelectSeq(h, LAMBDA e : e.call.op = "waitForSelector" /\ e.call.timeout = 5000)
    IN  [i \in 1..Len(a) |-> a[i].call.sel]

\* the probe that begins at step i of h has found its indicator visible
SeenVisible(h, i) ==
    /\ h[i].st = "ok" /\ i + 1 <= Len(h)
    /\ h[i + 1].call.op = "isVisible" /\ h[i + 1].call.sel = h[i].call.sel
    /\ h[i + 1].st = "ok" /\ h[i + 1].val = JSBool(TRUE)

\* C22: isLoginFailed returns true exactly when one of its seven error
\* indicators is visible, probing them in list order and stopping at the
\* first visible one, and returns false without throwing when none is
\* visible; getErrorMessage returns the text of the first visible
\* indicator, and 'No error message found' when none is visible.
C22_ErrorIndicators ==
    frame.method \in {"isLoginFailed", "getErrorMessage"} =>
        LET P == ProbeAt(log)
            V == {i \in P : SeenVisible(log, i)}
        IN  /\ Len(errorSelectors) = 7
            /\ IsPrefix(Probed(log), errorSelectors)
            /\ \A i \in V : \A j \in P : j <= i
            /\ frame.pc = "done" /\ V = {} =>
                  /\ Cardinality(P) = 7
                  /\ result.kind = "return"
                  /\ result.val = IF frame.method = "isLoginFailed" THEN JSBool(FALSE)
                                  ELSE JSStr("No error message found")
            /\ frame.pc = "done" /\ V # {} /\ frame.method = "isLoginFailed" =>
                  result = [kind |-> "return", val |-> JSBool(TRUE)]
            /\ frame.pc = "done" /\ V # {} /\ frame.method = "getErrorMessage"
                  /\ result.kind = "return" =>
                  /\ log[Len(log)].call.op = "textContent"
                  /\ \A i \in V : log[Len(log)].call.sel = log[i].call.sel
                  /\ result.val = log[Len(log)].val

\* getErrorMessage has returned the text of the third indicator, after the
\* wait for the first timed out and the second was found not visible
C22_Witness ==
    /\ Ended("getErrorMessage") /\ result.kind = "return"
    /\ Len(Probed(log)) = 3
    /\ log[1].st = "throw"
    /\ log[3].st = "ok" /\ log[3].val = JSBool(FALSE)
    /\ SeenVisible(log, 4)
    /\ log[Len(log)].call.sel = "text=Incorrect password"
    /\ result.val \in {JSStr(t) : t \in CellTexts}

\* the page actions of loginWithGoogle(googleEmail) up to its first wait
\* for navigation, and those that follow when the account entry is visible
GoogleSignIn ==
    << [op |-> "click", sel |-> "//span[@class='amplify-text']", state |-> "", text |-> ""],
       [op |-> "waitForLoadState", sel |-> "", state |-> "networkidle", text |-> ""] >>

GoogleAccount(googleEmail) ==
    LET entry == "//div[normalize-space()='"
                    \o (IF googleEmail = undefined THEN "mehedimohammad7728@gmail.com"
                                                   ELSE googleEmail) \o "']"
    IN  << [op |-> "isVisible", sel |-> entry, state |-> "", text |-> ""],
           [op |-> "click", sel |-> entry, state |-> "", text |-> ""],
           [op |-> "waitForLoadState", sel |-> "", state |-> "networkidle", text |-> ""] >>

\* C23: loginWithGoogle(googleEmail) clicks the Google sign-in button and
\* waits for navigation, then clicks the account entry and waits for
\* navigation a second time only if the entry for googleEmail is visible;
\* when the entry is not visible it ends normally after the first wait
\* with no further click.
C23_GoogleLogin ==
    frame.method = "loginWithGoogle" =>
        LET acts == PageActions(log)
            V == {i \in ProbeAt(log) : SeenVisible(log, i)}
            clicks == {i \in 1..Len(log) : log[i].call.op = "click"}
        IN  /\ IsPrefix(acts, GoogleSignIn \o GoogleAccount(frame.args[1]))
            /\ Cardinality(clicks) = 2 => V # {}
            /\ Ended("loginWithGoogle") /\ V = {}
                  /\ (\A i \in 1..Len(log) : i <= 4 => log[i].st = "ok") =>
                  /\ result.kind = "return"
                  /\ Cardinality(clicks) = 1
                  /\ IsPrefix(GoogleSignIn, acts) /\ Len(acts) <= 3
            /\ Ended("loginWithGoogle") /\ result.kind = "return" /\ V # {} =>
                  acts = GoogleSignIn \o GoogleAccount(frame.args[1])

\* loginWithGoogle has returned after the wait for the account entry timed
\* out: one click, one wait for navigation
C23_Witness ==
    /\ Ended("loginWithGoogle") /\ result.kind = "return"
    /\ PageActions(log) = GoogleSignIn
    /\ Len(log) = 5 /\ log[5].st = "throw"

\* the control whose dropdown holds the element: the account circle for the
\* logout button, the tenant, group and team selects for their options
Owner(sel) ==
    CASE sel = "//span[normalize-space()='Logout from Cempal']" ->
            "//span[@class='material-symbols-outlined medium-icon-style']"
      [] sel = "//div[@class='ant-select-item-option-content'][normalize-space()='@#$%']" ->
            "#tenantId"
      [] sel = "//div[contains(text(),'Tenant Admin')]" -> "#userGroup"
      [] sel = "//div[@title='Cutting Shoaib Vai']" -> "#teamId"
      [] OTHER -> ""

\* the comprehensive test has just made the call
Made(op) ==
    /\ test.name = "Complete Cempal Portal Test Flow - All 71 Steps"
    /\ test.at > 0 /\ test.call.op = op

\* C24: in the comprehensive test no toggle control (account circle, tenant,
\* group and team dropdown) is clicked twice in a row with no click on
\* another element in between, so that the control is open when the logout
\* button or the dropdown option is clicked (steps 15, 50, 52, 54, 61).
C24_DropdownOpen ==
    Made("click") =>
        /\ test.call.sel \in ToggleControls => test.page.clicks[1] # test.page.clicks[2]
        /\ Owner(test.call.sel) # "" => Owner(test.call.sel) \in test.page.open

\* the fields of the login form
LoginFields == {"input[id='amplify-id-:r2:']", "input[id='amplify-id-:r5:']"}

\* C25: a test case that fills the login fields (LoginPage.login or the
\* fills themselves) has navigated its page to the login page before.
C25_NavigatedBeforeLogin ==
    test.at > 0 /\ test.call.op = "fill" /\ test.call.sel \in LoginFields =>
        test.page.navigated

\* C26: in the comprehensive test the login-form fields are filled only
\* while the session is logged out (a successful sign-in logs in, logout
\* logs out, a reload keeps the session); so are the fills of steps 66-68.
C26_FilledLoggedOut ==
    Made("fill") /\ test.call.sel \in LoginFields => test.page.session = "out"

\* C27: in the API Response Time test the response time logged and compared
\* with 2000 ms for an API response is the difference between the
\* response's timestamp and the timestamp of the request that produced
\* that response, under every interleaving of request and response events,
\* several requests to the same URL included.
C27_TimeOfOwnRequest ==
    test.pc \in {"passed", "failed"} =>
        \A k \in 1..Len(test.times) :
            LET i == test.times[k].response
            IN  test.times[k].responseTime
                    = test.responses[i].timestamp - test.answers[i].sent

\* C28: every click and every fill a page-object method issues to the
\* library is preceded, within the same call of the method, by a wait for
\* the same element that has succeeded.
C28_WaitedBeforeAct ==
    \A i \in 1..Len(log) :
        log[i].k = "call" /\ log[i].call.op \in {"click", "fill", "locator.click"} =>
            \E j \in 1..(i - 1) :
                /\ log[j].call.op = "waitForSelector" /\ log[j].st = "ok"
                /\ log[j].call.sel = log[i].call.sel

\* C29: the row-scoped actions are scoped to the named row only: for every
\* table content, clickTenantAction(tenantName, action) clicks the action
\* button of the row whose tenant name is tenantName, and
\* clickAssignButton(userEmail) the Assign button of the row whose e-mail
\* is userEmail, never a button of a row of another tenant or user.
C29_NamedRowOnly ==
    test.clicked # 0 => test.table[test.clicked][1] = test.key

====
